---- MODULE Spec2Model ----
(***************************************************************************)
(* Ingestion pipeline of india-law-mcp: the rate-limited HTTP client       *)
(* (scripts/lib/fetcher.ts), act discovery and the per-act / per-section   *)
(* harvest loop (scripts/ingest.ts), with the parser helpers they call     *)
(* (scripts/lib/parser.ts).                                                *)
(*                                                                         *)
(* The citation parser, validator and formatter (src/citation), the tool   *)
(* registry (src/tools) and the update checker (scripts/check-updates.ts)  *)
(* are modelled beside it.                                                 *)
(*                                                                         *)
(* The specifications that share the module:                               *)
(*   SpecFetch     the transport: rateLimit + fetchWithRateLimit, timed    *)
(*   SpecDiscover  discoverActs, one loop iteration per step               *)
(*   Spec          main + fetchAndParseActs over repeated runs             *)
(*   SpecReplay    two runs against the same upstream answers              *)
(*   SpecParse     the helpers and tools, one call at a time               *)
(*   SpecCheck     one run of check-updates                                *)
(* Time is in milliseconds.  setTimeout(d) is modelled as a sleep of       *)
(* exactly d, the shortest sleep the timer allows.                         *)
(***************************************************************************)
EXTENDS Integers, Sequences, FiniteSets, TLC

VARIABLES
    \* ---- transport (fetcher.ts) ----
    now,              \* Date.now()
    lastRequestTime,  \* module-level let lastRequestTime
    fpc,              \* position inside fetchWithRateLimit
    url,              \* parameter url of the call in progress
    maxRetries,       \* parameter maxRetries of the call in progress
    attempt,          \* loop variable attempt
    response,         \* the response the current attempt received
    result,           \* outcome of the last finished call
    calls,            \* number of calls started
    reqs,             \* history: urls requested by the call in progress
    statuses,         \* history: statuses received by the call in progress
    waits,            \* history: time between a response and the next request
    lastResponseAt,   \* history: time the latest response arrived
    sent,             \* history: the two latest requests, [at, cap]
    firstSent,        \* history: when the first request of each of the two
                      \* latest calls started
    inflight,         \* calls not yet settled and requests not yet answered
    \* ---- files (ingest.ts) ----
    indexFile,        \* INDEX_PATH: [exists, entries]
    seedFiles,        \* SEED_DIR: seed file name -> [state, record]
    \* ---- main / discoverActs / fetchAndParseActs (ingest.ts) ----
    pc,               \* position of the run
    exitCode,         \* exit code of the last finished run
    limit,            \* parseArgs().limit
    skipDiscovery,    \* parseArgs().skipDiscovery
    page,             \* discoverActs: let page
    hasMore,          \* discoverActs: let hasMore
    allEntries,       \* discoverActs: const allEntries
    acts,             \* main: let acts
    toProcess,        \* fetchAndParseActs: const toProcess
    actIdx,                \* position of `act` in the for-of over toProcess
    metadata,         \* extractActMetadata(actResult.body)
    sections,         \* extractSectionRefs(actResult.body).sections
    secIdx,                \* position of `section` in the for-of over sections
    provisions,       \* const provisions
    processed,        \* let processed
    skipped,          \* let skipped
    failed,           \* let failed
    crawl,            \* history: listing responses of this discovery
    visited,          \* history: positions of toProcess entered this run
    fetched,          \* history: per section of this act, did the fetch give a body
    lastReq,          \* history: the request the latest step issued
    lastWrite,        \* history: the file write the latest step made or failed at
    replay,           \* the upstream's answers of a first run, given again later
    runLog,           \* history: per seed file, complete at the start of this
                      \* run, and the writes of this run
    \* ---- helpers called on their own ----
    pure,             \* the call in progress of a function without state:
                      \* its name, its arguments, what it gave
    \* ---- check-updates.ts ----
    chk               \* the run of the update checker: its position, the
                      \* database it finds, its locals, its exit code

fvars == <<now, lastRequestTime, fpc, url, maxRetries, attempt, response,
           result, calls, reqs, statuses, waits, lastResponseAt, sent,
           firstSent, inflight>>

pvars == <<indexFile, seedFiles, pc, exitCode, limit, skipDiscovery, page,
           hasMore, allEntries, acts, toProcess, actIdx, metadata, sections, secIdx,
           provisions, processed, skipped, failed, crawl, visited, fetched,
           lastReq, lastWrite, replay, runLog>>

xvars == <<pure, chk>>

vars == <<fvars, pvars, xvars>>

\* ---------------------------------------------------------------------------
\* Bounds of the model
\* ---------------------------------------------------------------------------
MaxCalls == 2

\* what the upstream may answer, and how long an answer may take
Statuses == {200, 404, 429, 500}
Latencies == {100, 600}
Urls == {"listing", "act"}

\* ---------------------------------------------------------------------------
\* fetcher.ts
\* ---------------------------------------------------------------------------
MIN_DELAY_MS == 500
DEFAULT_MAX_RETRIES == 3
RetryCaps == {DEFAULT_MAX_RETRIES, 0, -1}

NoResponse == [status |-> 0, body |-> <<>>]
NoResult == [kind |-> "none"]

RECURSIVE Pow2(_)
Pow2(n) == IF n <= 0 THEN 1 ELSE 2 * Pow2(n - 1)

\* line 45: response.status === 429 || response.status >= 500
Retryable(status) == status = 429 \/ status >= 500

Backoff_halved(a) == Pow2(a) * 1000

\* line 47: Math.pow(2, attempt + 1) * 1000
Backoff(a) == Pow2(a + 1) * 1000

ShouldRetry_inclusive(status, a, cap) == Retryable(status) /\ a <= cap

\* lines 45-46: the response is retried
ShouldRetry(status, a, cap) == Retryable(status) /\ a < cap

Awaited_fanOut(position) == TRUE

\* every call site awaits the call it makes (ingest.ts 291, 379, 427): the
\* next call is made when the one before has settled
Awaited(position) == position = "idle"

\* fetchWithRateLimit(url, maxRetries = 3) is entered
Call(u, cap) ==
    /\ UNCHANGED <<pvars, xvars>>
    /\ Awaited(fpc)
    /\ inflight' = [inflight EXCEPT !.calls = @ + 1]
    /\ calls < MaxCalls
    /\ calls' = calls + 1
    /\ url' = u
    /\ maxRetries' = cap
    /\ attempt' = 0
    /\ response' = NoResponse
    /\ result' = NoResult
    /\ reqs' = <<>>
    /\ statuses' = <<>>
    /\ waits' = <<>>
    /\ fpc' = "rateLimit"
    /\ UNCHANGED <<now, lastRequestTime, lastResponseAt, sent,
                   firstSent>>

Sleep_none(elapsed) == 0

\* rateLimit, lines 17-20: the sleep, for what is missing of MIN_DELAY_MS
Sleep(elapsed) == IF elapsed < MIN_DELAY_MS THEN MIN_DELAY_MS - elapsed ELSE 0

\* rateLimit, lines 16-20: sleep for what is missing of MIN_DELAY_MS
RateLimitWait ==
    /\ UNCHANGED <<pvars, xvars>>
    /\ UNCHANGED inflight
    /\ fpc = "rateLimit"
    /\ now' = now + Sleep(now - lastRequestTime)
    /\ fpc' = "stamp"
    /\ UNCHANGED <<lastRequestTime, url, maxRetries, attempt, response, result,
                   calls, reqs, statuses, waits, lastResponseAt, sent,
                   firstSent>>

\* rateLimit, line 21: lastRequestTime = Date.now()
RateLimitStamp ==
    /\ UNCHANGED <<pvars, xvars>>
    /\ UNCHANGED inflight
    /\ fpc = "stamp"
    /\ lastRequestTime' = now
    /\ fpc' = "loop"
    /\ UNCHANGED <<now, url, maxRetries, attempt, response, result, calls,
                   reqs, statuses, waits, lastResponseAt, sent,
                   firstSent>>

\* lines 37-43: the loop test passes and fetch(url) starts a request
SendRequest ==
    /\ UNCHANGED <<pvars, xvars>>
    /\ inflight' = [inflight EXCEPT !.requests = @ + 1]
    /\ fpc = "loop"
    /\ attempt <= maxRetries
    /\ reqs' = Append(reqs, url)
    /\ waits' = IF reqs = <<>> THEN waits ELSE Append(waits, now - lastResponseAt)
    /\ LET r == [at |-> now, cap |-> maxRetries]
       IN  sent' = IF Len(sent) < 2 THEN Append(sent, r) ELSE <<sent[2], r>>
    /\ firstSent' = IF reqs # <<>> THEN firstSent
                    ELSE IF Len(firstSent) < 2 THEN Append(firstSent, now)
                    ELSE <<firstSent[2], now>>
    /\ fpc' = "fetch"
    /\ UNCHANGED <<now, lastRequestTime, url, maxRetries, attempt, response,
                   result, calls, statuses, lastResponseAt>>

\* line 38: the awaited fetch resolves with a response
ReceiveResponse(status, latency) ==
    /\ UNCHANGED <<pvars, xvars>>
    /\ inflight' = [inflight EXCEPT !.requests = @ - 1]
    /\ fpc = "fetch"
    /\ now' = now + latency
    /\ response' = [status |-> status, body |-> <<url, Len(reqs)>>]
    /\ statuses' = Append(statuses, status)
    /\ lastResponseAt' = now'
    /\ fpc' = "response"
    /\ UNCHANGED <<lastRequestTime, url, maxRetries, attempt, result, calls,
                   reqs, waits, sent,
                   firstSent>>

\* line 38: the awaited fetch rejects (network failure)
FetchRejects(latency) ==
    /\ UNCHANGED <<pvars, xvars>>
    /\ inflight' = [calls |-> inflight.calls - 1,
                    requests |-> inflight.requests - 1]
    /\ fpc = "fetch"
    /\ now' = now + latency
    /\ result' = [kind |-> "raise", error |-> "network"]
    /\ fpc' = "idle"
    /\ UNCHANGED <<lastRequestTime, url, maxRetries, attempt, response, calls,
                   reqs, statuses, waits, lastResponseAt, sent,
                   firstSent>>

\* lines 45-51: back off, then continue with the next attempt
RetryAfterBackoff ==
    /\ UNCHANGED <<pvars, xvars>>
    /\ UNCHANGED inflight
    /\ fpc = "response"
    /\ ShouldRetry(response.status, attempt, maxRetries)
    /\ now' = now + Backoff(attempt)
    /\ attempt' = attempt + 1
    /\ fpc' = "loop"
    /\ UNCHANGED <<lastRequestTime, url, maxRetries, response, result, calls,
                   reqs, statuses, waits, lastResponseAt, sent,
                   firstSent>>

\* lines 54-59: return {status, body, contentType}
ReturnResponse ==
    /\ UNCHANGED <<pvars, xvars>>
    /\ inflight' = [inflight EXCEPT !.calls = @ - 1]
    /\ fpc = "response"
    /\ ~ShouldRetry(response.status, attempt, maxRetries)
    /\ result' = [kind |-> "return", status |-> response.status,
                  body |-> response.body]
    /\ fpc' = "idle"
    /\ UNCHANGED <<now, lastRequestTime, url, maxRetries, attempt, response,
                   calls, reqs, statuses, waits, lastResponseAt, sent,
                   firstSent>>

\* line 62: the loop ended without a return
ThrowAfterRetries ==
    /\ UNCHANGED <<pvars, xvars>>
    /\ inflight' = [inflight EXCEPT !.calls = @ - 1]
    /\ fpc = "loop"
    /\ attempt > maxRetries
    /\ result' = [kind |-> "raise", error |-> "retries"]
    /\ fpc' = "idle"
    /\ UNCHANGED <<now, lastRequestTime, url, maxRetries, attempt, response,
                   calls, reqs, statuses, waits, lastResponseAt, sent,
                   firstSent>>

InitFetch ==
    /\ now = 2 * MIN_DELAY_MS
    /\ lastRequestTime = 0
    /\ fpc = "idle"
    /\ url = "listing"
    /\ maxRetries = DEFAULT_MAX_RETRIES
    /\ attempt = 0
    /\ response = NoResponse
    /\ result = NoResult
    /\ calls = 0
    /\ reqs = <<>>
    /\ statuses = <<>>
    /\ waits = <<>>
    /\ lastResponseAt = 0
    /\ sent = <<>>
    /\ firstSent = <<>>
    /\ inflight = [calls |-> 0, requests |-> 0]

NextFetch ==
    \/ \E u \in Urls, cap \in RetryCaps : Call(u, cap)
    \/ RateLimitWait
    \/ RateLimitStamp
    \/ SendRequest
    \/ \E st \in Statuses, l \in Latencies : ReceiveResponse(st, l)
    \/ \E l \in Latencies : FetchRejects(l)
    \/ RetryAfterBackoff
    \/ ReturnResponse
    \/ ThrowAfterRetries

\* ---------------------------------------------------------------------------
\* parser.ts: listing pages
\* ---------------------------------------------------------------------------
BASE_URL == "https://www.indiacode.nic.in"

\* A listing row as its cells read: the title cell, the first four-digit number
\* in the title (0 when there is none), the year ending the date cell (0 when
\* there is none), the act number cell parsed, the href of the view link.
RowA == [title |-> "The A Act, 2000", titleYear |-> 2000, dateYear |-> 2000,
         actNumber |-> 1, link |-> "/handle/1"]
RowB == [title |-> "The B Act", titleYear |-> 0, dateYear |-> 2001,
         actNumber |-> 1, link |-> "/handle/2"]
RowADup == [title |-> "The A Act, 2000 (reprint)", titleYear |-> 2000,
            dateYear |-> 0, actNumber |-> 1, link |-> "http://mirror/1"]
RowNoYear == [title |-> "The C Act", titleYear |-> 0, dateYear |-> 0,
              actNumber |-> 3, link |-> "/handle/3"]
RowNoLink == [title |-> "The D Act, 2002", titleYear |-> 2002, dateYear |-> 2002,
              actNumber |-> 4, link |-> ""]

Digits10 == <<"0", "1", "2", "3", "4", "5", "6", "7", "8", "9">>

IsDigit(c) == \E d \in 1..10 : Digits10[d] = c

DigitValue(c) == (CHOOSE d \in 1..10 : Digits10[d] = c) - 1

CharAt(s, i) == SubSeq(s, i, i)

\* \d{4} matches at position i of s
FourDigitsAt(s, i) ==
    i >= 1 /\ i + 3 <= Len(s) /\ \A k \in 0..3 : IsDigit(CharAt(s, i + k))

\* parseInt of the four digits at position i
FourDigitValue(s, i) ==
    1000 * DigitValue(CharAt(s, i)) + 100 * DigitValue(CharAt(s, i + 1))
    + 10 * DigitValue(CharAt(s, i + 2)) + DigitValue(CharAt(s, i + 3))

\* lines 68-69: titleCell.match(/(\d{4})/), the leftmost match, parsed; 0
\* without a match
TitleYear(titleCell) ==
    LET at == {i \in 1..Len(titleCell) : FourDigitsAt(titleCell, i)}
    IN  IF at = {} THEN 0
        ELSE FourDigitValue(titleCell, CHOOSE i \in at : \A j \in at : i <= j)

\* lines 72-73: dateCell.match(/(\d{4})$/), parsed; 0 without a match
DateYear(dateCell) ==
    IF FourDigitsAt(dateCell, Len(dateCell) - 3)
    THEN FourDigitValue(dateCell, Len(dateCell) - 3)
    ELSE 0

\* parseInt(s, 10) of the digits s starts with, from value so far
RECURSIVE LeadingInt(_, _)
LeadingInt(s, value) ==
    IF Len(s) >= 1 /\ IsDigit(CharAt(s, 1))
    THEN LeadingInt(SubSeq(s, 2, Len(s)), 10 * value + DigitValue(CharAt(s, 1)))
    ELSE value

\* line 65: parseInt(actNumCell, 10) || 0, NaN when no digit leads
ActNumber(actNumCell) == LeadingInt(actNumCell, 0)

\* lines 57-73: the cells of a table row (td t1..t4, trimmed) as the row
\* parser reads them
ReadRow(cells) ==
    [title |-> cells.title,
     titleYear |-> TitleYear(cells.title),
     dateYear |-> DateYear(cells.date),
     actNumber |-> ActNumber(cells.actNum),
     link |-> cells.link]

ParseRow_anyYear(row) ==
    IF row.title = "" \/ row.link = "" THEN <<>>
    ELSE <<[title |-> row.title,
            year |-> IF row.titleYear # 0 THEN row.titleYear ELSE row.dateYear,
            actNumber |-> row.actNumber,
            url |-> BASE_URL \o row.link]>>

\* lines 62-88 of parseActListPage: one table row to zero or one entry
ParseRow(row) ==
    IF row.title = "" \/ row.link = "" THEN <<>>
    ELSE LET effectiveYear == IF row.titleYear # 0 THEN row.titleYear
                              ELSE row.dateYear
         IN  IF effectiveYear = 0 THEN <<>>
             ELSE <<[title |-> row.title,
                     year |-> effectiveYear,
                     actNumber |-> row.actNumber,
                     url |-> IF Len(row.link) >= 4 /\ SubSeq(row.link, 1, 4) = "http"
                             THEN row.link
                             ELSE BASE_URL \o row.link]>>

RECURSIVE ParseRows(_)
ParseRows(rows) ==
    IF rows = <<>> THEN <<>> ELSE ParseRow(Head(rows)) \o ParseRows(Tail(rows))

\* parseActListPage(html): body.rows are the table rows, body.next tells
\* whether the page holds an offset link around a nextPage image
parseActListPage(body) ==
    [entries |-> ParseRows(body.rows), hasNextPage |-> body.next]

\* ---------------------------------------------------------------------------
\* parser.ts: section content
\* ---------------------------------------------------------------------------
IsTag(t) == Len(t) >= 2 /\ SubSeq(t, 1, 1) = "<" /\ SubSeq(t, Len(t), Len(t)) = ">"
IsSpace(t) == t \in {" ", "\n", "\t"}

\* the replacements of cleanText on one token; <<>> when the token is removed
CleanToken(t) ==
    CASE t \in {"<br>", "<br/>", "<br />", "</p>"} -> <<"\n">>
      [] IsTag(t) -> <<>>
      [] t = "&nbsp;" -> <<" ">>
      [] t = "&amp;" -> <<"&">>
      [] t = "&lt;" -> <<"<">>
      [] t = "&gt;" -> <<">">>
      [] t = "&quot;" -> <<"\"">>
      [] t = "&#39;" -> <<"'">>
      [] OTHER -> <<t>>

RECURSIVE CleanTokens(_)
CleanTokens(raw) ==
    IF raw = <<>> THEN <<>> ELSE CleanToken(Head(raw)) \o CleanTokens(Tail(raw))

\* .replace(/\s+/g, ' '): a run of white space becomes one blank
RECURSIVE Collapse(_)
Collapse(ts) ==
    IF ts = <<>> THEN <<>>
    ELSE IF IsSpace(Head(ts))
         THEN IF Len(ts) >= 2 /\ IsSpace(ts[2])
              THEN Collapse(Tail(ts))
              ELSE <<" ">> \o Collapse(Tail(ts))
         ELSE <<Head(ts)>> \o Collapse(Tail(ts))

\* .trim()
Trim(ts) ==
    LET a == IF ts # <<>> /\ IsSpace(Head(ts)) THEN Tail(ts) ELSE ts
    IN  IF a # <<>> /\ IsSpace(a[Len(a)]) THEN SubSeq(a, 1, Len(a) - 1) ELSE a

RECURSIVE Join(_)
Join(ts) == IF ts = <<>> THEN "" ELSE Head(ts) \o Join(Tail(ts))

\* cleanText(html), html given as its tokens (tags, entities, blanks, words)
cleanText(raw) == Join(Trim(Collapse(CleanTokens(raw))))

\* A response body as JSON.parse reads it: json is "invalid" (JSON.parse
\* throws), "null", "scalar" (a number, a string, a boolean) or "object";
\* a field of an object is a string given as its tokens, undefined (the
\* field is absent), null, or a value of another type
Str(tokens) == [is |-> "string", text |-> tokens]
Undefined == [is |-> "undefined", text |-> <<>>]
Null == [is |-> "null", text |-> <<>>]
NotAString == [is |-> "other", text |-> <<>>]

\* data.content ?? ''
OrEmpty(v) == IF v.is \in {"undefined", "null"} THEN Str(<<>>) ELSE v

Raised == [raised |-> TRUE, content |-> "", footnote |-> ""]

\* lines 262-267, the try block throws: JSON.parse throws on text that is
\* not JSON, the read of a property of null throws, cleanText throws on a
\* value without .replace
Raises(body) ==
    \/ body.json \in {"invalid", "null"}
    \/ /\ body.json = "object"
       /\ \/ OrEmpty(body.content).is # "string"
          \/ OrEmpty(body.footnote).is # "string"

\* data.content ?? '' as the text cleanText is given
FieldText(body, field) ==
    IF body.json = "object" THEN OrEmpty(body[field]).text ELSE <<>>

\* lines 262-267, the try block
ParseAndClean(body) ==
    IF Raises(body) THEN Raised
    ELSE [raised |-> FALSE,
          content |-> cleanText(FieldText(body, "content")),
          footnote |-> cleanText(FieldText(body, "footnote"))]

parseSectionContentJson_uncaught(body) == ParseAndClean(body)

\* parseSectionContentJson(json), lines 261-271: the catch turns whatever
\* the try block raised into empty strings
parseSectionContentJson(body) ==
    IF Raises(body) THEN [raised |-> FALSE, content |-> "", footnote |-> ""]
    ELSE ParseAndClean(body)

\* ingest.ts line 431
fullContent(parsed) ==
    IF parsed.footnote # ""
    THEN parsed.content \o "\n\n[Footnote] " \o parsed.footnote
    ELSE parsed.content

\* the letters of 'section' under the i flag
SameLetter(c, lower) ==
    \/ c = lower
    \/ <<c, lower>> \in {<<"S", "s">>, <<"E", "e">>, <<"C", "c">>, <<"T", "t">>,
                         <<"I", "i">>, <<"O", "o">>, <<"N", "n">>}

\* /^section/i matches
StartsWithSection(t) ==
    Len(t) >= 7 /\ \A k \in 1..7 : SameLetter(CharAt(t, k), CharAt("section", k))

\* \s* at the start of t removed
RECURSIVE DropBlanks(_)
DropBlanks(t) ==
    IF Len(t) >= 1 /\ IsSpace(CharAt(t, 1)) THEN DropBlanks(SubSeq(t, 2, Len(t)))
    ELSE t

\* \s* at the end of t removed
RECURSIVE DropBlanksEnd(_)
DropBlanksEnd(t) ==
    IF Len(t) >= 1 /\ IsSpace(CharAt(t, Len(t)))
    THEN DropBlanksEnd(SubSeq(t, 1, Len(t) - 1))
    ELSE t

buildProvisionRef_labelOnly(sectionNum) ==
    "s" \o DropBlanksEnd(DropBlanks(
               IF StartsWithSection(sectionNum)
               THEN SubSeq(sectionNum, 8, Len(sectionNum))
               ELSE sectionNum))

\* buildProvisionRef(sectionNum), lines 276-279:
\* .replace(/^section\s*/i, '').replace(/\.\s*$/, '').trim()
buildProvisionRef(sectionNum) ==
    LET a == IF StartsWithSection(sectionNum)
             THEN DropBlanks(SubSeq(sectionNum, 8, Len(sectionNum)))
             ELSE sectionNum
        e == DropBlanksEnd(a)
        b == IF Len(e) >= 1 /\ SubSeq(e, Len(e), Len(e)) = "."
             THEN SubSeq(e, 1, Len(e) - 1)
             ELSE a
    IN  "s" \o DropBlanksEnd(DropBlanks(b))

\* buildProvision(sectionNo, title, content)
buildProvision(sectionNo, title, content) ==
    [provision_ref |-> buildProvisionRef(sectionNo),
     section |-> sectionNo,
     title |-> title,
     content |-> content]

\* ---------------------------------------------------------------------------
\* What the upstream may serve
\* ---------------------------------------------------------------------------
MaxVariedPages == 2

NoBody == [rows |-> <<>>, next |-> FALSE]
VariedRows == {<<>>, <<RowNoYear>>, <<RowA>>, <<RowA, RowB>>, <<RowB, RowADup>>}
ListingFailure == [status |-> 503, body |-> NoBody]

\* an upstream whose listing never ends: past the first pages every page
\* holds the same row
EndlessListing(p) ==
    {ListingFailure} \cup
    {[status |-> 200, body |-> [rows |-> r, next |-> n]] :
        r \in (IF p <= MaxVariedPages THEN VariedRows \cup {<<RowNoLink>>}
               ELSE {<<>>, <<RowA>>}),
        n \in BOOLEAN}

\* an upstream whose listing ends after the first pages
FiniteListing(p) ==
    {ListingFailure} \cup
    {[status |-> 200, body |-> [rows |-> r, next |-> n]] :
        r \in {<<>>, <<RowA>>, <<RowB>>, <<RowA, RowB>>},
        n \in (IF p < MaxVariedPages THEN BOOLEAN ELSE {FALSE})}

\* section references an act page may hold, as extractSectionRefs returns them
Sec1 == [actId |-> "AC_1", sectionId |-> "101", sectionNo |-> "4",
         title |-> "Definitions"]
Sec2 == [actId |-> "AC_1", sectionId |-> "102", sectionNo |-> "43A",
         title |-> "Compensation"]

\* an act page: the ShortTitle row of its metadata table and its accordion
ActPages == {[shortTitle |-> "", sections |-> <<>>],
             [shortTitle |-> "Short A", sections |-> <<Sec1>>],
             [shortTitle |-> "", sections |-> <<Sec1, Sec2>>]}
NoPage == [shortTitle |-> "", sections |-> <<>>]

Thrown == [kind |-> "throw", status |-> 0]

ActOutcomes ==
    {Thrown} \cup
    {[kind |-> "response", status |-> st, body |-> NoPage] : st \in {301, 404, 500}} \cup
    {[kind |-> "response", status |-> 200, body |-> b] : b \in ActPages}

EmptyBody == [json |-> "empty"]
SectionBodies ==
    {EmptyBody,
     [json |-> "invalid"],
     [json |-> "null"],
     [json |-> "scalar"],
     [json |-> "object", content |-> Undefined, footnote |-> Null],
     [json |-> "object", content |-> NotAString, footnote |-> Undefined],
     [json |-> "object", content |-> Str(<<"<p>", "A", "</p>">>),
      footnote |-> Str(<<"B">>)]}

SectionOutcomes ==
    {Thrown, [kind |-> "response", status |-> 404, body |-> EmptyBody]} \cup
    {[kind |-> "response", status |-> 200, body |-> b] : b \in SectionBodies}

\* ---------------------------------------------------------------------------
\* ingest.ts
\* ---------------------------------------------------------------------------
PAGE_LIMIT == 100

NoLimit == [kind |-> "null"]
\* what parseArgs can return for --limit: null without the flag, else the
\* parsed number
Limits == {NoLimit, [kind |-> "int", n |-> 1], [kind |-> "int", n |-> 0]}

NoReq == [kind |-> "none", key |-> "", status |-> 0, n |-> 0]
NoWrite == [kind |-> "none", key |-> ""]
NoMetadata == [shortTitle |-> ""]

Absent == [state |-> "absent"]
\* a seed file that JSON.parse rejects
Corrupt == [state |-> "corrupt"]
\* a seed file that parses to a value without a provisions list
NoProvisionList == [state |-> "nolist"]
NoIndex == [exists |-> FALSE, valid |-> FALSE, entries |-> <<>>]
\* an index file that JSON.parse rejects
CorruptIndex == [exists |-> TRUE, valid |-> FALSE, entries |-> <<>>]

\* ${act.actNumber}_${act.year}.json
SeedFile(act) == ToString(act.actNumber) \o "_" \o ToString(act.year) \o ".json"
SeedNames == {"1_2000.json", "1_2001.json"}

\* act-${act.actNumber}-${act.year}
ActId_numberOnly(act) == "act-" \o ToString(act.actNumber)

ActId(act) == "act-" \o ToString(act.actNumber) \o "-" \o ToString(act.year)

\* lines 320-328: keep the first entry of each year-actNumber key
RECURSIVE DedupeFrom(_, _, _)
DedupeFrom(entries, seen, deduped) ==
    IF entries = <<>> THEN deduped
    ELSE LET entry == Head(entries)
             key == <<entry.year, entry.actNumber>>
         IN  IF key \in seen
             THEN DedupeFrom(Tail(entries), seen, deduped)
             ELSE DedupeFrom(Tail(entries), seen \cup {key}, Append(deduped, entry))

Reverse(list) == [k \in 1..Len(list) |-> list[Len(list) + 1 - k]]

Dedupe_last(entries) == Reverse(DedupeFrom(Reverse(entries), {}, <<>>))

Dedupe_none(entries) == entries

Dedupe(entries) == DedupeFrom(entries, {}, <<>>)

\* line 305
NoEntries(n) == n = 0

PageLimitHit_late(p) == p > PAGE_LIMIT + 1

\* line 313
PageLimitHit(p) == p > PAGE_LIMIT

\* line 345: limit ? acts.slice(0, limit) : acts
Truncate(list, lim) ==
    IF lim.kind = "int" /\ lim.n # 0
    THEN IF lim.n > 0
         THEN SubSeq(list, 1, IF lim.n < Len(list) THEN lim.n ELSE Len(list))
         ELSE SubSeq(list, 1, IF Len(list) + lim.n > 0 THEN Len(list) + lim.n ELSE 0)
    ELSE list

SkipCheck_never(seed) == FALSE

SkipCheck_unparsed(seed) ==
    \/ seed.state \in {"corrupt", "nolist"}
    \/ /\ seed.state = "ok"
       /\ Len(seed.record.provisions) > 0
       /\ \E k \in 1..Len(seed.record.provisions) :
             Len(seed.record.provisions[k].content) > 0

SkipCheck_every(seed) ==
    /\ seed.state = "ok"
    /\ Len(seed.record.provisions) > 0
    /\ \A k \in 1..Len(seed.record.provisions) :
          Len(seed.record.provisions[k].content) > 0

\* lines 360-375: the seed exists, parses, and some provision has content;
\* JSON.parse or the read of existing.provisions throwing is caught at 372
SkipCheck(seed) ==
    /\ seed.state = "ok"
    /\ Len(seed.record.provisions) > 0
    /\ \E k \in 1..Len(seed.record.provisions) :
          Len(seed.record.provisions[k].content) > 0

\* lines 383-392: the minimal seed of a page that was not retrieved
MinimalSeed(act) ==
    [id |-> ActId(act), title |-> act.title, url |-> act.url,
     provisions |-> <<>>, language |-> ""]

\* lines 406-415 and 448-458: the seed of a retrieved page
ParsedAct(act, meta, provs, lang) ==
    [id |-> ActId(act),
     title |-> IF meta.shortTitle # "" THEN meta.shortTitle ELSE act.title,
     url |-> act.url, provisions |-> provs, language |-> lang]

WritesPlaceholder_navigational(status) == status \in {404, 301, 302}

\* lines 381-393: every status other than 200 gets a minimal seed
WritesPlaceholder(status) == status # 200

OnSectionError_drop(provs, section) == provs

\* lines 442-445: the section is recorded without content
OnSectionError(provs, section) ==
    Append(provs, buildProvision(section.sectionNo, section.title, ""))

\* the per-act constants of the loop body (metadata, sections, provisions)
\* end with the body
EndOfBody ==
    /\ metadata' = NoMetadata
    /\ sections' = <<>>
    /\ secIdx' = 1
    /\ provisions' = <<>>
    /\ fetched' = <<>>

\* the locals of discoverActs end with the call
EndOfDiscover ==
    /\ page' = 1
    /\ hasMore' = TRUE
    /\ allEntries' = <<>>
    /\ crawl' = <<>>

\* the seed parses and some provision of it has content
SeedComplete(f) ==
    /\ f.state = "ok"
    /\ \E k \in 1..Len(f.record.provisions) : f.record.provisions[k].content # ""

NoRunLog ==
    [complete |-> [f \in SeedNames |-> FALSE], writes |-> [f \in SeedNames |-> 0]]

\* the log of a run that starts over the seeds
RunStart(seeds) ==
    [complete |-> [f \in SeedNames |-> SeedComplete(seeds[f])],
     writes |-> [f \in SeedNames |-> 0]]

\* the log after a step that left the write w
Logged(log, w) ==
    IF w.kind \in {"minimal", "full"}
    THEN [log EXCEPT !.writes[w.key] = @ + 1]
    ELSE log

\* the locals of main and fetchAndParseActs end with the run
EndOfRun ==
    /\ runLog' = NoRunLog
    /\ limit' = NoLimit
    /\ skipDiscovery' = FALSE
    /\ acts' = <<>>
    /\ toProcess' = <<>>
    /\ actIdx' = 1
    /\ processed' = 0
    /\ skipped' = 0
    /\ failed' = 0
    /\ visited' = <<>>

NextAct_uncounted ==
    /\ processed' = processed
    /\ actIdx' = actIdx + 1
    /\ pc' = "acts"
    /\ EndOfBody
    /\ UNCHANGED <<exitCode, limit, skipDiscovery, acts, toProcess>>

\* line 471 (396, 417): processed++, and the loop goes to the next act
NextAct ==
    /\ processed' = processed + 1
    /\ actIdx' = actIdx + 1
    /\ pc' = "acts"
    /\ EndOfBody
    /\ UNCHANGED <<exitCode, limit, skipDiscovery, acts, toProcess>>

CatchAct_rethrow ==
    /\ pc' = "idle"
    /\ exitCode' = 1
    /\ EndOfBody
    /\ UNCHANGED <<failed, processed, actIdx, limit, skipDiscovery, acts,
                   toProcess>>

CatchAct_uncounted ==
    /\ failed' = failed
    /\ NextAct

\* lines 465-471: the catch of the per-act try, then processed++
CatchAct ==
    /\ failed' = failed + 1
    /\ NextAct

\* ---------------------------------------------------------------------------
\* An upstream that answers a request again as it answered it before
\* ---------------------------------------------------------------------------
\* replay.phase: "off" (each answer is free), "first" (a run whose answers
\* are kept), "settled" (that run has ended), "again" / "againDone" (a
\* second run over its files), "restored" (the files of the start put
\* back), "cut" (a run from the restored files), "interrupted" (that run
\* ended from outside), "restarted" / "restartedDone" (the run after it)
ReplayOff ==
    [phase |-> "off", answers |-> <<>>, args |-> [lim |-> NoLimit, skip |-> FALSE],
     seeds0 |-> <<>>, seedsA |-> <<>>, exitA |-> 0, seedsI |-> <<>>,
     fresh |-> FALSE]

ListKey(p) == "list:" \o ToString(p)
ActKey(file) == "act:" \o file
SectionKey(file, k) == "section:" \o file \o ":" \o ToString(k)

Replaying(r) == r.phase \in {"again", "cut", "restarted"}

\* the upstream is unchanged: a request it answered in the first run gets
\* the same answer
Replays(key, out) ==
    (Replaying(replay) /\ key \in DOMAIN replay.answers)
        => out = replay.answers[key]

\* replay after the request key got the answer out
Answered(r, key, out) ==
    CASE r.phase = "first" -> [r EXCEPT !.answers = (key :> out) @@ @]
      [] Replaying(r) /\ key \notin DOMAIN r.answers -> [r EXCEPT !.fresh = TRUE]
      [] OTHER -> r

\* replay after main started with the arguments
Started(r, lim, skip) ==
    CASE r.phase = "first" -> [r EXCEPT !.args = [lim |-> lim, skip |-> skip]]
      [] r.phase = "settled" -> [r EXCEPT !.phase = "again"]
      [] r.phase = "restored" -> [r EXCEPT !.phase = "cut"]
      [] r.phase = "interrupted" -> [r EXCEPT !.phase = "restarted"]
      [] OTHER -> r

\* replay after the process ended with the exit code, leaving the seeds
Ended(r, code, seeds) ==
    CASE r.phase = "first" ->
             [r EXCEPT !.phase = "settled", !.exitA = code, !.seedsA = seeds]
      [] r.phase = "again" -> [r EXCEPT !.phase = "againDone"]
      [] r.phase = "cut" -> [r EXCEPT !.phase = "cutDone"]
      [] r.phase = "restarted" -> [r EXCEPT !.phase = "restartedDone"]
      [] OTHER -> r

UseCachedIndex_never(skip, index) == FALSE

UseCachedIndex_flagOnly(skip, index) == skip

\* line 501: skipDiscovery && fs.existsSync(INDEX_PATH)
UseCachedIndex(skip, index) == skip /\ index.exists

\* lines 514-517: an exception left main; 'Fatal error' is printed and the
\* process exits with 1
Fatal ==
    /\ pc' = "idle"
    /\ exitCode' = 1
    /\ lastWrite' = [kind |-> "fatal", key |-> ""]
    /\ EndOfRun

\* main, lines 489-507
Main(lim, skip) ==
    /\ pc = "idle"
    /\ lastReq' = NoReq
    /\ IF UseCachedIndex(skip, indexFile)
       THEN IF indexFile.valid
            THEN /\ acts' = indexFile.entries
                 /\ pc' = "phase2"
                 /\ limit' = lim
                 /\ skipDiscovery' = skip
                 /\ lastWrite' = NoWrite
                 /\ replay' = Started(replay, lim, skip)
                 /\ runLog' = RunStart(seedFiles)
                 /\ UNCHANGED <<exitCode, toProcess, actIdx, processed, skipped,
                                failed, visited>>
            ELSE \* line 503: JSON.parse throws
                 /\ Fatal
                 /\ replay' = Ended(Started(replay, lim, skip), 1, seedFiles)
       ELSE \* discoverActs is entered, lines 284-286
            /\ pc' = "discover"
            /\ limit' = lim
            /\ skipDiscovery' = skip
            /\ lastWrite' = NoWrite
            /\ replay' = Started(replay, lim, skip)
            /\ runLog' = RunStart(seedFiles)
            /\ UNCHANGED <<acts, exitCode, toProcess, actIdx, processed, skipped,
                           failed, visited>>
    /\ UNCHANGED <<indexFile, seedFiles, page, hasMore, allEntries,
                   metadata, sections, secIdx, provisions, crawl, fetched>>
    /\ UNCHANGED <<fvars, xvars>>

\* discoverActs, lines 288-317: one turn of the while loop
DiscoverPage(resp) ==
    /\ pc = "discover"
    /\ hasMore
    /\ Replays(ListKey(page), resp)
    /\ replay' = Answered(replay, ListKey(page), resp)
    /\ UNCHANGED runLog
    /\ LET listResult == parseActListPage(resp.body)
           n == Len(listResult.entries)
       IN  /\ lastReq' = [kind |-> "list", key |-> "", status |-> resp.status,
                          n |-> page]
           /\ crawl' = Append(crawl, [status |-> resp.status,
                                      entries |-> IF resp.status = 200 THEN n ELSE 0,
                                      next |-> listResult.hasNextPage])
           /\ IF resp.status # 200
              THEN /\ pc' = "dedup"
                   /\ UNCHANGED <<allEntries, hasMore, page>>
              ELSE /\ allEntries' = allEntries \o listResult.entries
                   /\ IF NoEntries(n)
                      THEN /\ pc' = "dedup"
                           /\ UNCHANGED <<hasMore, page>>
                      ELSE /\ hasMore' = listResult.hasNextPage
                           /\ page' = page + 1
                           /\ pc' = IF PageLimitHit(page') \/ ~hasMore'
                                    THEN "dedup" ELSE "discover"
    /\ lastWrite' = NoWrite
    /\ UNCHANGED <<indexFile, seedFiles, exitCode, limit, skipDiscovery, acts,
                   toProcess, actIdx, metadata, sections, secIdx, provisions,
                   processed, skipped, failed, visited, fetched>>
    /\ UNCHANGED <<fvars, xvars>>

\* line 291 rejects: the exception leaves discoverActs and main, lines 514-517
DiscoverRejects ==
    /\ pc = "discover"
    /\ hasMore
    /\ lastReq' = [kind |-> "list", key |-> "", status |-> 0, n |-> page]
    /\ Replays(ListKey(page), Thrown)
    /\ replay' = Ended(Answered(replay, ListKey(page), Thrown), 1, seedFiles)
    /\ Fatal
    /\ EndOfDiscover
    /\ UNCHANGED <<indexFile, seedFiles, metadata, sections, secIdx, provisions,
                   fetched>>
    /\ UNCHANGED <<fvars, xvars>>

\* discoverActs, lines 319-337: deduplicate, save the index, return it
DedupAndSave ==
    /\ pc = "dedup"
    /\ LET deduped == Dedupe(allEntries)
       IN  /\ indexFile' = [exists |-> TRUE, valid |-> TRUE, entries |-> deduped]
           /\ acts' = deduped
    /\ lastReq' = NoReq
    /\ lastWrite' = [kind |-> "index", key |-> "", crawled |-> allEntries,
                     stopped |-> crawl[Len(crawl)].status]
    /\ pc' = "phase2"
    /\ EndOfDiscover
    /\ UNCHANGED <<seedFiles, exitCode, limit, skipDiscovery, toProcess, actIdx,
                   metadata, sections, secIdx, provisions, processed, skipped,
                   failed, visited, fetched>>
    /\ UNCHANGED <<replay, runLog>>
    /\ UNCHANGED <<fvars, xvars>>

\* lines 333-334: the index cannot be written; the exception leaves main
SaveRejects ==
    /\ pc = "dedup"
    /\ lastReq' = NoReq
    /\ Fatal
    /\ replay' = Ended(replay, 1, seedFiles)
    /\ EndOfDiscover
    /\ UNCHANGED <<indexFile, seedFiles, metadata, sections, secIdx, provisions,
                   fetched>>
    /\ UNCHANGED <<fvars, xvars>>

\* line 348: the seed directory cannot be created; the exception leaves main
BeginActsRejects ==
    /\ pc = "phase2"
    /\ lastReq' = NoReq
    /\ Fatal
    /\ replay' = Ended(replay, 1, seedFiles)
    /\ UNCHANGED <<indexFile, seedFiles, page, hasMore, allEntries, metadata,
                   sections, secIdx, provisions, crawl, fetched>>
    /\ UNCHANGED <<fvars, xvars>>

\* fetchAndParseActs, lines 344-354
BeginActs ==
    /\ pc = "phase2"
    /\ toProcess' = Truncate(acts, limit)
    /\ processed' = 0
    /\ skipped' = 0
    /\ failed' = 0
    /\ actIdx' = 1
    /\ pc' = "acts"
    /\ lastReq' = NoReq
    /\ lastWrite' = NoWrite
    /\ UNCHANGED <<indexFile, seedFiles, exitCode, limit, skipDiscovery, page,
                   hasMore, allEntries, acts, metadata, sections, secIdx,
                   provisions, crawl, visited, fetched>>
    /\ UNCHANGED <<replay, runLog>>
    /\ UNCHANGED <<fvars, xvars>>

\* lines 356-371: the act has a seed with content and is skipped
ActSkip ==
    /\ pc = "acts"
    /\ actIdx <= Len(toProcess)
    /\ SkipCheck(seedFiles[SeedFile(toProcess[actIdx])])
    /\ visited' = Append(visited, actIdx)
    /\ skipped' = skipped + 1
    /\ processed' = processed + 1
    /\ actIdx' = actIdx + 1
    /\ lastReq' = NoReq
    /\ lastWrite' = NoWrite
    /\ UNCHANGED <<indexFile, seedFiles, pc, exitCode, limit, skipDiscovery,
                   page, hasMore, allEntries, acts, toProcess, metadata,
                   sections, secIdx, provisions, failed, crawl, fetched>>
    /\ UNCHANGED <<replay, runLog>>
    /\ UNCHANGED <<fvars, xvars>>

\* lines 356-419: the act page is requested; out is what fetchActHtml gives,
\* writeOk whether a writeFileSync of this step succeeds
ActFetch(out, writeOk) ==
    /\ pc = "acts"
    /\ actIdx <= Len(toProcess)
    /\ ~SkipCheck(seedFiles[SeedFile(toProcess[actIdx])])
    /\ Replays(ActKey(SeedFile(toProcess[actIdx])), out)
    /\ replay' = Answered(replay, ActKey(SeedFile(toProcess[actIdx])), out)
    /\ LET act == toProcess[actIdx]
           seedFile == SeedFile(act)
           page200 == out.kind = "response" /\ out.status = 200
           refs == IF page200 THEN out.body.sections ELSE <<>>
           meta == IF page200 THEN [shortTitle |-> out.body.shortTitle]
                   ELSE NoMetadata
       IN  /\ lastReq' = [kind |-> "act", key |-> seedFile,
                          status |-> out.status, n |-> Len(refs),
                          was |-> seedFiles[seedFile].state]
           /\ CASE out.kind = "throw" ->
                     /\ CatchAct
                     /\ lastWrite' = NoWrite
                     /\ UNCHANGED seedFiles
                [] out.kind = "response" /\ out.status # 200 ->
                     IF ~WritesPlaceholder(out.status)
                     THEN /\ failed' = failed + 1
                          /\ NextAct
                          /\ lastWrite' = NoWrite
                          /\ UNCHANGED seedFiles
                     ELSE IF writeOk
                     THEN /\ seedFiles' = [seedFiles EXCEPT ![seedFile] =
                                 [state |-> "ok", record |-> MinimalSeed(act)]]
                          /\ lastWrite' = [kind |-> "minimal", key |-> seedFile]
                          /\ failed' = failed + 1
                          /\ NextAct
                     ELSE /\ CatchAct
                          /\ lastWrite' = [kind |-> "failed", key |-> seedFile]
                          /\ UNCHANGED seedFiles
                [] page200 /\ Len(refs) = 0 ->
                     IF writeOk
                     THEN /\ seedFiles' = [seedFiles EXCEPT ![seedFile] =
                                 [state |-> "ok",
                                  record |-> ParsedAct(act, meta, <<>>, "")]]
                          /\ lastWrite' = [kind |-> "minimal", key |-> seedFile]
                          /\ NextAct
                          /\ UNCHANGED failed
                     ELSE /\ CatchAct
                          /\ lastWrite' = [kind |-> "failed", key |-> seedFile]
                          /\ UNCHANGED seedFiles
                [] page200 /\ Len(refs) > 0 ->
                     /\ metadata' = meta
                     /\ sections' = refs
                     /\ provisions' = <<>>
                     /\ fetched' = <<>>
                     /\ secIdx' = 1
                     /\ pc' = "sections"
                     /\ lastWrite' = NoWrite
                     /\ UNCHANGED <<seedFiles, exitCode, actIdx, processed, failed,
                                    limit, skipDiscovery, acts, toProcess>>
    /\ runLog' = Logged(runLog, lastWrite')
    /\ visited' = Append(visited, actIdx)
    /\ UNCHANGED <<indexFile, page, hasMore, allEntries, skipped, crawl>>
    /\ UNCHANGED <<fvars, xvars>>

NextSection_reversed(refs, k) == refs[Len(refs) + 1 - k]

\* line 425: for (const section of sections), the k-th turn
NextSection(refs, k) == refs[k]

\* lines 425-446: one turn of the section loop; out is what
\* fetchSectionContent gives
SectionFetch(out) ==
    /\ pc = "sections"
    /\ secIdx <= Len(sections)
    /\ Replays(SectionKey(SeedFile(toProcess[actIdx]), secIdx), out)
    /\ replay' = Answered(replay, SectionKey(SeedFile(toProcess[actIdx]), secIdx),
                          out)
    /\ UNCHANGED runLog
    /\ LET section == NextSection(sections, secIdx)
           gotBody == out.kind = "response" /\ out.status = 200
                      /\ out.body.json # "empty"
       IN  \* line 429, reached with a body only
           \E parsed \in
               {IF gotBody THEN parseSectionContentJson(out.body)
                ELSE [raised |-> FALSE, content |-> "", footnote |-> ""]} :
           /\ lastReq' = [kind |-> "section", key |-> SeedFile(toProcess[actIdx]),
                          status |-> out.status, n |-> secIdx,
                          ref |-> <<section.actId, section.sectionId>>,
                          body |-> IF out.kind = "response" THEN out.body
                                   ELSE EmptyBody,
                          caught |-> out.kind = "throw" \/ parsed.raised]
           /\ fetched' = Append(fetched, gotBody)
           /\ provisions' =
                 IF out.kind = "throw" \/ parsed.raised
                 THEN OnSectionError(provisions, section)
                 ELSE IF gotBody
                 THEN Append(provisions,
                             buildProvision(section.sectionNo, section.title,
                                            fullContent(parsed)))
                 ELSE Append(provisions,
                             buildProvision(section.sectionNo, section.title, ""))
    /\ secIdx' = secIdx + 1
    /\ pc' = IF secIdx' > Len(sections) THEN "write" ELSE "sections"
    /\ lastWrite' = NoWrite
    /\ UNCHANGED <<indexFile, seedFiles, exitCode, limit, skipDiscovery, page,
                   hasMore, allEntries, acts, toProcess, actIdx, metadata,
                   sections, processed, skipped, failed, crawl, visited>>
    /\ UNCHANGED <<fvars, xvars>>

\* lines 448-471: the seed of the act is written
ActWrite(writeOk) ==
    /\ pc = "write"
    /\ LET act == toProcess[actIdx]
       IN  IF writeOk
           THEN /\ seedFiles' = [seedFiles EXCEPT ![SeedFile(act)] =
                       [state |-> "ok",
                        record |-> ParsedAct(act, metadata, provisions, "en")]]
                /\ lastWrite' = [kind |-> "full", key |-> SeedFile(act),
                                 sections |-> sections, fetched |-> fetched]
                /\ NextAct
                /\ UNCHANGED failed
           ELSE /\ CatchAct
                /\ lastWrite' = [kind |-> "failed", key |-> SeedFile(act)]
                /\ UNCHANGED seedFiles
    /\ lastReq' = NoReq
    /\ runLog' = Logged(runLog, lastWrite')
    /\ UNCHANGED <<indexFile, page, hasMore, allEntries, skipped, crawl, visited,
                   replay>>
    /\ UNCHANGED <<fvars, xvars>>

ExitOnReturn_failures(failedActs) == IF failedActs > 0 THEN 1 ELSE 0

\* lines 509-511: main returns and the process ends with the default code
ExitOnReturn(failedActs) == 0

\* lines 477-483 and 509-511: the loop is over, the counts are reported,
\* main returns
EndRun ==
    /\ pc = "acts"
    /\ actIdx > Len(toProcess)
    /\ pc' = "idle"
    /\ exitCode' = ExitOnReturn(failed)
    /\ replay' = Ended(replay, ExitOnReturn(failed), seedFiles)
    /\ lastReq' = NoReq
    /\ lastWrite' = [kind |-> "report", key |-> "", processed |-> processed,
                     skipped |-> skipped, failed |-> failed]
    /\ EndOfRun
    /\ UNCHANGED <<indexFile, seedFiles, page, hasMore, allEntries, metadata,
                   sections, secIdx, provisions, crawl, fetched>>
    /\ UNCHANGED <<fvars, xvars>>

\* ---------------------------------------------------------------------------
\* Specifications
\* ---------------------------------------------------------------------------
NoCall == [fn |-> "none"]

\* ---------------------------------------------------------------------------
\* check-updates.ts
\* ---------------------------------------------------------------------------
\* A title is the act it names and the way it is written: the case of its
\* letters, and blanks around it or none
Acts == {"a", "b"}
Title(act, letters, padded) == [act |-> act, letters |-> letters, padded |-> padded]

\* String.prototype.toLowerCase
toLowerCase(title) == [title EXCEPT !.letters = "lower"]

\* String.prototype.trim
trim(title) == [title EXCEPT !.padded = FALSE]

\* titles of the statutes in legal_documents, as the build stores them
StoredTitles == {Title(a, l, FALSE) : a \in Acts, l \in {"Title", "lower"}}

\* the file at DB_PATH: missing, not a database (new Database throws),
\* without the table (prepare throws), or holding statutes
Databases ==
    {[file |-> f, titles |-> {}] : f \in {"missing", "notdb", "notable"}} \cup
    {[file |-> "ok", titles |-> s] : s \in SUBSET StoredTitles}

\* the anchors of the latest-acts page: their texts; act is "" for a text
\* the title pattern (Act ... four digits) does not match
Anchors ==
    {Title("", "Title", FALSE)} \cup
    {Title(a, l, p) : a \in Acts, l \in {"Title", "upper"}, p \in BOOLEAN}

MaxAnchors == 2

Pages == UNION {[1..k -> Anchors] : k \in 0..MaxAnchors}

\* what fetch of the latest-acts page may give: a rejection (network
\* failure, or the abort after REQUEST_TIMEOUT_MS), or a response
FetchOutcomes ==
    {[kind |-> "reject", ok |-> FALSE, html |-> <<>>]} \cup
    {[kind |-> "response", ok |-> FALSE, html |-> <<>>]} \cup
    {[kind |-> "response", ok |-> TRUE, html |-> h] : h \in Pages}

\* line 61: /<a[^>]*>([^<]*Act[^<]*\d{4}[^<]*)<\/a>/gi matches the anchor
MatchesTitle(anchor) == anchor.act # ""

\* lines 61-66: one result per match, its title trimmed
RECURSIVE TitleMatches(_)
TitleMatches(html) ==
    IF html = <<>> THEN <<>>
    ELSE (IF MatchesTitle(Head(html)) THEN <<trim(Head(html))>> ELSE <<>>)
         \o TitleMatches(Tail(html))

NoCheck ==
    [pc |-> "idle", db |-> [file |-> "missing", titles |-> {}], localDocs |-> {},
     recentActs |-> <<>>, newActs |-> <<>>, i |-> 1, exit |-> -1,
     cause |-> "none", html |-> <<>>]

ExitCheckFailed_uncaught(cause) == 1

\* lines 90-93 and 127-130: process.exit(2)
ExitCheckFailed(cause) == 2

\* the process ends with the code, for the cause
CheckExits(c, code, cause) ==
    [c EXCEPT !.pc = "exited", !.exit = code, !.cause = cause]

\* main, lines 86-93: the database file is looked for
CheckMain ==
    /\ chk.pc = "idle"
    /\ chk' = IF chk.db.file = "missing"
              THEN CheckExits(chk, ExitCheckFailed("nodb"), "nodb")
              ELSE [chk EXCEPT !.pc = "query"]
    /\ UNCHANGED <<fvars, pvars, pure>>

\* main, lines 95-100: the statute titles are read, lower-cased; an
\* exception leaves main and reaches the catch at 127
CheckQuery ==
    /\ chk.pc = "query"
    /\ chk' = IF chk.db.file = "ok"
              THEN [chk EXCEPT !.pc = "fetch",
                               !.localDocs = {toLowerCase(ti) : ti \in chk.db.titles}]
              ELSE CheckExits(chk, ExitCheckFailed("db"), "db")
    /\ UNCHANGED <<fvars, pvars, pure>>

\* fetchRecentGazetteNotifications, lines 49-71, and line 103
CheckFetch(out) ==
    /\ chk.pc = "fetch"
    /\ chk' = IF out.kind = "reject"
              THEN CheckExits(chk, ExitCheckFailed("network"), "network")
              ELSE IF ~out.ok
              THEN CheckExits(chk, ExitCheckFailed("http"), "http")
              ELSE [chk EXCEPT !.pc = "compare", !.html = out.html,
                               !.recentActs = TitleMatches(out.html),
                               !.newActs = <<>>, !.i = 1]
    /\ UNCHANGED <<fvars, pvars, pure>>

\* main, lines 107-115: one turn of the loop over recentActs
CheckCompare ==
    /\ chk.pc = "compare"
    /\ chk.i <= Len(chk.recentActs)
    /\ LET act == chk.recentActs[chk.i]
       IN  chk' = [chk EXCEPT
                      !.newActs = IF toLowerCase(act) \notin chk.localDocs
                                  THEN Append(@, act) ELSE @,
                      !.i = @ + 1]
    /\ UNCHANGED <<fvars, pvars, pure>>

\* main, lines 117-124: the summary, then exit 1 or the return of main
CheckSummary ==
    /\ chk.pc = "compare"
    /\ chk.i > Len(chk.recentActs)
    /\ chk' = CheckExits(chk, IF Len(chk.newActs) > 0 THEN 1 ELSE 0, "none")
    /\ UNCHANGED <<fvars, pvars, pure>>

InitRun ==
    /\ pure = NoCall
    /\ pc = "idle"
    /\ exitCode = 0
    /\ limit = NoLimit
    /\ skipDiscovery = FALSE
    /\ page = 1
    /\ hasMore = TRUE
    /\ allEntries = <<>>
    /\ acts = <<>>
    /\ toProcess = <<>>
    /\ actIdx = 1
    /\ metadata = NoMetadata
    /\ sections = <<>>
    /\ secIdx = 1
    /\ provisions = <<>>
    /\ processed = 0
    /\ skipped = 0
    /\ failed = 0
    /\ crawl = <<>>
    /\ visited = <<>>
    /\ fetched = <<>>
    /\ lastReq = NoReq
    /\ lastWrite = NoWrite
    /\ runLog = NoRunLog

\* the transport alone, no run in progress
InitTransport ==
    /\ InitFetch /\ InitRun /\ chk = NoCheck
    /\ replay = ReplayOff
    /\ indexFile = NoIndex
    /\ seedFiles = [f \in SeedNames |-> Absent]

SpecFetch == InitTransport /\ [][NextFetch]_vars

\* main up to the return of discoverActs, against a listing that may never end
InitDiscover ==
    /\ InitFetch /\ InitRun /\ chk = NoCheck
    /\ replay = ReplayOff
    /\ indexFile \in {NoIndex, [exists |-> TRUE, valid |-> TRUE, entries |-> ParseRows(<<RowB>>)]}
    /\ seedFiles = [f \in SeedNames |-> Absent]

NextDiscover ==
    \/ \E lim \in Limits, skip \in BOOLEAN : Main(lim, skip)
    \/ \E resp \in EndlessListing(page) : DiscoverPage(resp)
    \/ DiscoverRejects
    \/ DedupAndSave
    \/ SaveRejects

SpecDiscover == InitDiscover /\ [][NextDiscover]_vars

\* repeated runs of main over one data directory; a seed file may have been
\* left unparsable by an interrupted write
Init ==
    /\ InitFetch /\ InitRun /\ chk = NoCheck
    /\ replay = ReplayOff
    /\ indexFile \in {NoIndex, CorruptIndex}
    /\ seedFiles \in [SeedNames -> {Absent, Corrupt, NoProvisionList}]

Next ==
    \/ \E lim \in Limits, skip \in BOOLEAN : Main(lim, skip)
    \/ \E resp \in FiniteListing(page) : DiscoverPage(resp)
    \/ DiscoverRejects
    \/ DedupAndSave
    \/ SaveRejects
    \/ BeginActs
    \/ BeginActsRejects
    \/ ActSkip
    \/ \E out \in ActOutcomes, writeOk \in BOOLEAN : ActFetch(out, writeOk)
    \/ \E out \in SectionOutcomes : SectionFetch(out)
    \/ \E writeOk \in BOOLEAN : ActWrite(writeOk)
    \/ EndRun

Spec == Init /\ [][Next]_vars

\* ---------------------------------------------------------------------------
\* Runs against an unchanged upstream: a first run, then either a second run
\* with --skip-discovery over its files, or the same run again from the same
\* files, ended from outside at some step and started again
\* ---------------------------------------------------------------------------
ReplayListing(p) ==
    IF p = 1
    THEN {[status |-> 200, body |-> [rows |-> <<RowA, RowB>>, next |-> FALSE]],
          [status |-> 200, body |-> [rows |-> <<RowA>>, next |-> TRUE]]}
    ELSE {[status |-> 200, body |-> [rows |-> <<RowB, RowADup>>, next |-> FALSE]],
          ListingFailure}

ReplayActOutcomes ==
    {Thrown,
     [kind |-> "response", status |-> 404, body |-> NoPage],
     [kind |-> "response", status |-> 200,
      body |-> [shortTitle |-> "", sections |-> <<Sec1, Sec2>>]]}

ReplaySectionOutcomes ==
    {Thrown,
     [kind |-> "response", status |-> 200,
      body |-> [json |-> "object", content |-> Str(<<"<p>", "A", "</p>">>),
                footnote |-> Str(<<"B">>)]]}

\* the seed directory before the first run
ReplaySeeds ==
    {[f \in SeedNames |-> Absent],
     [f \in SeedNames |-> IF f = "1_2000.json" THEN Corrupt ELSE Absent],
     [f \in SeedNames |-> IF f = "1_2001.json" THEN NoProvisionList ELSE Absent]}

\* the first run
FirstRun(lim, skip) ==
    /\ replay.phase = "first"
    /\ Main(lim, skip)

\* a second run, with --skip-discovery
SecondRun(lim) ==
    /\ replay.phase = "settled"
    /\ Main(lim, TRUE)

\* the data directory is put back to what the first run started from
Restore ==
    /\ replay.phase = "settled"
    /\ pc = "idle"
    /\ seedFiles' = replay.seeds0
    /\ indexFile' = NoIndex
    /\ exitCode' = 0
    /\ lastReq' = NoReq
    /\ lastWrite' = NoWrite
    /\ replay' = [replay EXCEPT !.phase = "restored"]
    /\ UNCHANGED <<runLog, pc, limit, skipDiscovery, page, hasMore, allEntries, acts,
                   toProcess, actIdx, metadata, sections, secIdx, provisions,
                   processed, skipped, failed, crawl, visited, fetched>>
    /\ UNCHANGED <<fvars, xvars>>

\* the command of the first run is given again
SameRun ==
    /\ replay.phase \in {"restored", "interrupted"}
    /\ Main(replay.args.lim, replay.args.skip)

\* the process is ended from outside between two steps; main installs no
\* handler, the locals are lost and the files stay as they are
Interrupt ==
    /\ replay.phase = "cut"
    /\ pc # "idle"
    /\ pc' = "idle"
    /\ exitCode' = 130
    /\ lastReq' = NoReq
    /\ lastWrite' = [kind |-> "interrupted", key |-> ""]
    /\ replay' = [replay EXCEPT !.phase = "interrupted", !.seedsI = seedFiles]
    /\ EndOfBody
    /\ EndOfDiscover
    /\ EndOfRun
    /\ UNCHANGED <<indexFile, seedFiles>>
    /\ UNCHANGED <<fvars, xvars>>

InitReplay ==
    /\ InitFetch /\ InitRun /\ chk = NoCheck
    /\ indexFile = NoIndex
    /\ seedFiles \in ReplaySeeds
    /\ replay = [ReplayOff EXCEPT !.phase = "first", !.seeds0 = seedFiles,
                                  !.seedsA = seedFiles, !.seedsI = seedFiles]

NextReplay ==
    \/ \E lim \in Limits, skip \in BOOLEAN : FirstRun(lim, skip)
    \/ \E lim \in Limits : SecondRun(lim)
    \/ Restore
    \/ SameRun
    \/ Interrupt
    \/ \E resp \in ReplayListing(page) : DiscoverPage(resp)
    \/ DiscoverRejects
    \/ DedupAndSave
    \/ BeginActs
    \/ ActSkip
    \/ \E out \in ReplayActOutcomes : ActFetch(out, TRUE)
    \/ \E out \in ReplaySectionOutcomes : SectionFetch(out)
    \/ ActWrite(TRUE)
    \/ EndRun

SpecReplay == InitReplay /\ [][NextReplay]_vars

\* every step of a run is taken in the end: the process is not left stopped
FairSpecReplay == SpecReplay /\ WF_vars(NextReplay)

\* ---------------------------------------------------------------------------
\* src/citation: parser, validator, formatter
\* ---------------------------------------------------------------------------
\* A citation is given by its words, separated by white space; a comma is a
\* word of its own.  An optional field of ParsedCitation that is undefined
\* is "" here (0 for year): the code tests these fields for truthiness only.
ArticleLabels == {"Article", "Art."}
\* (?:Section|s\.?|Art\.?)
FullLabels == {"Section", "s.", "Art."}
\* (\d{4})
YearWords == {"2000", "0000"}
\* \d+[A-Za-z]?
SimpleRefWords == {"21", "43A"} \cup YearWords
\* \d+[A-Za-z]?(?:\(\d+\))*(?:\([a-z]\))*
RefWords == SimpleRefWords \cup {"4(1)(a)", "4(1)(2)"}
TitleWords == {"IT Act", "Constitution of India", "gibberish"}

\* parseInt(match, 10) of a year
YearValue(word) == FourDigitValue(word, 1)

\* SECTION_REF on a reference: its groups, or no match
SectionRefGroups(word) ==
    CASE word = "4(1)(a)" -> [match |-> TRUE, groups |-> <<"4", "1", "a">>]
      [] word = "4(1)(2)" -> [match |-> FALSE, groups |-> <<"", "", "">>]
      [] OTHER -> [match |-> TRUE, groups |-> <<word, "", "">>]

StripComma(words) ==
    IF words # <<>> /\ Head(words) = "," THEN Tail(words) ELSE words

StripCommaEnd(words) ==
    IF words # <<>> /\ words[Len(words)] = ","
    THEN SubSeq(words, 1, Len(words) - 1)
    ELSE words

Front(words) == SubSeq(words, 1, Len(words) - 1)

RECURSIVE JoinWords(_)
JoinWords(words) ==
    IF words = <<>> THEN ""
    ELSE IF Len(words) = 1 THEN Head(words)
    ELSE IF words[2] = "," THEN Head(words) \o JoinWords(Tail(words))
    ELSE Head(words) \o " " \o JoinWords(Tail(words))

\* parseSection, lines 109-135
parseSection(sectionStr, titleWords, year) ==
    LET m == SectionRefGroups(sectionStr)
    IN  [valid |-> TRUE, type |-> "statute", title |-> JoinWords(titleWords),
         year |-> year,
         section |-> IF m.match THEN m.groups[1] ELSE sectionStr,
         subsection |-> m.groups[2], clause |-> m.groups[3], error |-> ""]

NoMatch == [match |-> FALSE, ref |-> "", title |-> <<>>, year |-> 0]

\* ARTICLE_CITATION: label, reference, an optional comma, a title taken as
\* short as possible, then optionally a comma and a year
ArticleCitation(words) ==
    IF Len(words) >= 3 /\ words[1] \in ArticleLabels /\ words[2] \in SimpleRefWords
    THEN LET rest == StripComma(SubSeq(words, 3, Len(words)))
         IN  IF rest = <<>> THEN NoMatch
             ELSE IF rest[Len(rest)] \in YearWords /\ StripCommaEnd(Front(rest)) # <<>>
             THEN [match |-> TRUE, ref |-> words[2],
                   title |-> StripCommaEnd(Front(rest)),
                   year |-> YearValue(rest[Len(rest)])]
             ELSE [match |-> TRUE, ref |-> words[2], title |-> rest, year |-> 1950]
    ELSE NoMatch

\* FULL_CITATION; what SHORT_CITATION matches, FULL_CITATION matches too
FullCitation(words) ==
    IF Len(words) >= 4 /\ words[1] \in FullLabels /\ words[2] \in RefWords
    THEN LET rest == StripComma(SubSeq(words, 3, Len(words)))
         IN  IF rest # <<>> /\ rest[Len(rest)] \in YearWords
                /\ StripCommaEnd(Front(rest)) # <<>>
             THEN [match |-> TRUE, ref |-> words[2],
                   title |-> StripCommaEnd(Front(rest)),
                   year |-> YearValue(rest[Len(rest)])]
             ELSE NoMatch
    ELSE NoMatch

\* TRAILING_SECTION: title, year, label, reference, a comma allowed before
\* and after the year
TrailingSection(words) ==
    LET n == Len(words)
    IN  IF n >= 4 /\ words[n] \in RefWords /\ words[n - 1] \in FullLabels
        THEN LET upToYear == StripCommaEnd(SubSeq(words, 1, n - 2))
             IN  IF upToYear # <<>> /\ upToYear[Len(upToYear)] \in YearWords
                    /\ StripCommaEnd(Front(upToYear)) # <<>>
                 THEN [match |-> TRUE, ref |-> words[n],
                       title |-> StripCommaEnd(Front(upToYear)),
                       year |-> YearValue(upToYear[Len(upToYear)])]
                 ELSE NoMatch
        ELSE NoMatch

\* /constitution/i.test(match[2])
NamesConstitution(titleWords) ==
    \E k \in 1..Len(titleWords) : titleWords[k] = "Constitution of India"

\* parseCitation, lines 75-107
parseCitation(words) ==
    LET a == ArticleCitation(words)
        f == FullCitation(words)
        tr == TrailingSection(words)
    IN  IF a.match /\ NamesConstitution(a.title)
        THEN parseSection(a.ref, a.title, a.year)
        ELSE IF f.match THEN parseSection(f.ref, f.title, f.year)
        ELSE IF tr.match THEN parseSection(tr.ref, tr.title, tr.year)
        ELSE [valid |-> FALSE, type |-> "unknown", title |-> "", year |-> 0,
              section |-> "", subsection |-> "", clause |-> "",
              error |-> "Could not parse Indian citation"]

\* buildPinpoint, lines 38-46 of the formatter
buildPinpoint(parsed) ==
    parsed.section
    \o (IF parsed.subsection # "" THEN "(" \o parsed.subsection \o ")" ELSE "")
    \o (IF parsed.clause # "" THEN "(" \o parsed.clause \o ")" ELSE "")

\* .replace(/,\s*$/, '') on a text without white space at its end
DropLastComma(t) ==
    IF Len(t) >= 1 /\ CharAt(t, Len(t)) = "," THEN SubSeq(t, 1, Len(t) - 1) ELSE t

\* ${parsed.year ?? ''}
YearText(year) == IF year = 0 THEN "" ELSE ToString(year)

CitationFormats == {"full", "short", "pinpoint", "other"}

\* `Section ${pinpoint}, ${title}, ${year}`.trim().replace(/,\s*$/, '')
FullFormat(parsed) ==
    DropLastComma(DropBlanksEnd(DropBlanks(
        "Section " \o buildPinpoint(parsed) \o ", " \o parsed.title \o ", "
        \o YearText(parsed.year))))

formatCitation_unguarded(parsed, format) ==
    CASE format = "full" -> FullFormat(parsed)
      [] format = "short" ->
            DropBlanksEnd(DropBlanks(
                "s. " \o buildPinpoint(parsed) \o " " \o parsed.title \o " "
                \o YearText(parsed.year)))
      [] format = "pinpoint" -> "s. " \o buildPinpoint(parsed)
      [] OTHER -> FullFormat(parsed)

\* formatCitation(parsed, format), lines 12-35 of the formatter
formatCitation(parsed, format) ==
    IF ~parsed.valid \/ parsed.section = "" THEN ""
    ELSE CASE format = "full" -> FullFormat(parsed)
           [] format = "short" ->
                 DropBlanksEnd(DropBlanks(
                     "s. " \o buildPinpoint(parsed) \o " " \o parsed.title \o " "
                     \o YearText(parsed.year)))
           [] format = "pinpoint" -> "s. " \o buildPinpoint(parsed)
           [] OTHER -> FullFormat(parsed)

\* sub occurs in s at position i
OccursAt(s, sub, i) == i >= 1 /\ i + Len(sub) - 1 <= Len(s)
                       /\ SubSeq(s, i, i + Len(sub) - 1) = sub

\* title LIKE '%a%b%'
LikeBoth(s, a, b) ==
    \E i \in 1..(Len(s) + 1) :
        /\ OccursAt(s, a, i)
        /\ \E j \in (i + Len(a))..(Len(s) + 1) : OccursAt(s, b, j)

\* REPLACE(s, from, to), from of two characters, to of one
RECURSIVE Replace(_, _, _)
Replace(s, from, to) ==
    IF Len(s) < 2 THEN s
    ELSE IF SubSeq(s, 1, 2) = from THEN to \o Replace(SubSeq(s, 3, Len(s)), from, to)
    ELSE SubSeq(s, 1, 1) \o Replace(SubSeq(s, 2, Len(s)), from, to)

\* lines 59-79: the provision query finds the row
ProvisionMatches(prov, docId, parsed) ==
    LET pinpoint == buildPinpoint(parsed)
        provisionRef == "s" \o pinpoint
        allowPrefixMatch == parsed.subsection = "" /\ parsed.clause = ""
        section == Replace(Replace(prov.section, "((", "("), "))", ")")
    IN  /\ prov.document_id = docId
        /\ \/ prov.provision_ref = provisionRef
           \/ prov.section = pinpoint
           \/ section = pinpoint
           \/ /\ allowPrefixMatch
              /\ \/ OccursAt(prov.provision_ref, provisionRef \o "(", 1)
                 \/ OccursAt(section, pinpoint \o "(", 1)

InvalidResult_silent(parsed) ==
    [citation |-> parsed, document_exists |-> FALSE, provision_exists |-> FALSE,
     document_title |-> "", status |-> "", warnings |-> <<>>]

\* lines 16-23: the result for a citation that did not parse
InvalidResult(parsed) ==
    [citation |-> parsed, document_exists |-> FALSE, provision_exists |-> FALSE,
     document_title |-> "", status |-> "",
     warnings |-> <<IF parsed.error # "" THEN parsed.error
                    ELSE "Invalid citation format">>]

\* rows of legal_documents whose title the pattern of lines 26-28 matches
DocsFound(db, parsed) ==
    {d \in db.documents :
        LikeBoth(d.title, parsed.title,
                 IF parsed.year # 0 THEN ToString(parsed.year) ELSE "")}

\* validateCitation(db, citation), lines 12-98; doc is the row the
\* LIMIT 1 query gave, one of DocsFound
validateCitation(db, words, doc) ==
    LET parsed == parseCitation(words)
    IN  IF ~parsed.valid THEN InvalidResult(parsed)
        ELSE IF DocsFound(db, parsed) = {}
        THEN [citation |-> parsed, document_exists |-> FALSE,
              provision_exists |-> FALSE, document_title |-> "", status |-> "",
              warnings |-> <<"Document not found in database">>]
        ELSE LET provisionExists ==
                     /\ parsed.section # ""
                     /\ \E prov \in db.provisions :
                            ProvisionMatches(prov, doc.id, parsed)
                 repealed == IF doc.status = "repealed"
                             THEN <<"This statute has been repealed">> ELSE <<>>
                 notFound == IF parsed.section # "" /\ ~provisionExists
                             THEN <<"Section not found">> ELSE <<>>
             IN  [citation |-> parsed, document_exists |-> TRUE,
                  provision_exists |-> provisionExists,
                  document_title |-> doc.title, status |-> doc.status,
                  warnings |-> repealed \o notFound]

\* ---------------------------------------------------------------------------
\* scripts/lib/parser.ts: parseActHtml with inline section content
\* ---------------------------------------------------------------------------
\* the characters of chars removed from s
RECURSIVE Without(_, _)
Without(s, chars) ==
    IF s = "" THEN ""
    ELSE (IF CharAt(s, 1) \in chars THEN "" ELSE CharAt(s, 1))
         \o Without(SubSeq(s, 2, Len(s)), chars)

\* /\d/.test(s)
HasDigit(s) == \E k \in 1..Len(s) : IsDigit(CharAt(s, k))

LowerLetters ==
    {"a", "b", "c", "d", "e", "f", "g", "h", "i", "j", "k", "l", "m", "n", "o",
     "p", "q", "r", "s", "t", "u", "v", "w", "x", "y", "z"}

StopWords == {"The", "And", "For", "Act", "Of", "In", "To", "With"}

\* line 127-131: the filter of buildShortName
Significant(w) ==
    Len(w) > 2 /\ CharAt(w, 1) \notin LowerLetters /\ w \notin StopWords

RECURSIVE Initials(_, _)
Initials(words, n) ==
    IF words = <<>> \/ n = 0 THEN ""
    ELSE IF Significant(Head(words))
    THEN CharAt(Head(words), 1) \o Initials(Tail(words), n - 1)
    ELSE Initials(Tail(words), n)

RECURSIVE CountSignificant(_)
CountSignificant(words) ==
    IF words = <<>> THEN 0
    ELSE (IF Significant(Head(words)) THEN 1 ELSE 0) + CountSignificant(Tail(words))

\* the text of a title given as its words, one blank between two words
RECURSIVE TitleText(_)
TitleText(words) ==
    IF words = <<>> THEN ""
    ELSE IF Len(words) = 1 THEN Head(words)
    ELSE Head(words) \o " " \o TitleText(Tail(words))

\* buildShortName(title, year), lines 123-139; the title is given as its
\* words, each with a character other than ( ) ,
buildShortName(titleWords, year) ==
    LET words == [k \in 1..Len(titleWords) |-> Without(titleWords[k], {"(", ")", ","})]
        title == TitleText(titleWords)
    IN  IF Len(words) <= 3 THEN title \o " " \o ToString(year)
        ELSE IF CountSignificant(words) >= 2
        THEN Initials(words, 5) \o " " \o ToString(year)
        ELSE DropBlanksEnd(DropBlanks(
                 SubSeq(title, 1, IF Len(title) < 30 THEN Len(title) ELSE 30)))
             \o " " \o ToString(year)

\* line 156-162, in the order in which they are tried
sectionSelectors ==
    <<".akn-section", ".section-content", "div[id^=section]", ".act-section",
      "table.section-table tr">>

\* lines 169-170: the section number of an element
SectionNumOf(el) == Without(cleanText(el.num), {"[", "]"})

\* lines 179-185: the content of an element, its whole text when the
\* content element has none
ContentOf(el) ==
    IF cleanText(el.content) # "" THEN cleanText(el.content) ELSE cleanText(el.html)

\* lines 172 and 187: the element gives no provision
Passed(el) ==
    \/ SectionNumOf(el) = ""
    \/ ~HasDigit(SectionNumOf(el))
    \/ Len(ContentOf(el)) < 10

\* lines 189-196: the provision of an element
ProvisionOf(el) ==
    [provision_ref |-> buildProvisionRef(SectionNumOf(el)),
     section |-> LET e == DropBlanksEnd(SectionNumOf(el))
                 IN  DropBlanksEnd(DropBlanks(
                         IF Len(e) >= 1 /\ CharAt(e, Len(e)) = "."
                         THEN SubSeq(e, 1, Len(e) - 1)
                         ELSE SectionNumOf(el))),
     title |-> cleanText(el.heading),
     content |-> ContentOf(el)]

\* lines 165-197: $(selector).each over the elements the selector matches
RECURSIVE EachElement(_)
EachElement(els) ==
    IF els = <<>> THEN <<>>
    ELSE (IF Passed(Head(els)) THEN <<>> ELSE <<ProvisionOf(Head(els))>>)
         \o EachElement(Tail(els))

RECURSIVE SelectorLoop_merged(_, _, _)
SelectorLoop_merged(matches, k, provs) ==
    IF k > Len(sectionSelectors) THEN provs
    ELSE SelectorLoop_merged(matches, k + 1,
                             provs \o EachElement(matches[sectionSelectors[k]]))

\* lines 164-200: the loop over the selectors from the k-th on, left at the
\* first selector after which provisions is not empty
RECURSIVE SelectorLoop(_, _, _)
SelectorLoop(matches, k, provs) ==
    IF k > Len(sectionSelectors) THEN provs
    ELSE LET found == provs \o EachElement(matches[sectionSelectors[k]])
         IN  IF Len(found) > 0 THEN found
             ELSE SelectorLoop(matches, k + 1, found)

\* parseActHtml(html, year, actNumber, actTitle, actUrl), lines 144-212;
\* html is given by the elements each selector matches in it
parseActHtml(matches, year, actNumber, actTitle, actUrl) ==
    [id |-> ActId([actNumber |-> actNumber, year |-> year]),
     type |-> "statute",
     title |-> TitleText(actTitle),
     short_name |-> buildShortName(actTitle, year),
     status |-> "in_force",
     issued_date |-> ToString(year) \o "-01-01",
     url |-> actUrl,
     provisions |-> SelectorLoop(matches, 1, <<>>)]

\* ---------------------------------------------------------------------------
\* The helpers on their own: one call at a time, each on an argument taken
\* from a bounded set
\* ---------------------------------------------------------------------------
MaxTokens == 2

\* texts of at most n tokens
TokenSeqs(alphabet, n) == UNION {[1..k -> alphabet] : k \in 0..n}

HtmlTokens == {"<p>", "<br/>", "A", " ", "&amp;"}

FieldValues ==
    {Undefined, Null, NotAString} \cup {Str(s) : s \in TokenSeqs(HtmlTokens, MaxTokens)}

\* non-empty bodies the content endpoint may give with status 200
JsonBodies ==
    {[json |-> "invalid"], [json |-> "null"], [json |-> "scalar"]} \cup
    {[json |-> "object", content |-> c, footnote |-> f] :
        c \in FieldValues, f \in FieldValues}

MaxRows == 1

TitleCells == {"", "The C Act", "The A Act, 2000", "Act 12 of 199", "Act 0000 of 1999"}
DateCells == {"", "2001", "12-Jan-2001", "2001-01-12", "0000"}
ActNumCells == {"", "05", "12A"}
LinkCells == {"", "/handle/3"}

\* the data rows a listing table may hold
RawRows ==
    {[title |-> ti, date |-> d, actNum |-> n, link |-> l] :
        ti \in TitleCells, d \in DateCells, n \in ActNumCells, l \in LinkCells}

RawPages ==
    {[rows |-> r, next |-> n] :
        r \in UNION {[1..k -> RawRows] : k \in 0..MaxRows}, n \in BOOLEAN}

\* parseActListPage(html) on a page given by the cells of its rows; pushed
\* tells for each row whether entries.push was reached in its turn
ListPage ==
    /\ pure = NoCall
    /\ \E raw \in RawPages :
          LET rows == [i \in 1..Len(raw.rows) |-> ReadRow(raw.rows[i])]
          IN  pure' = [fn |-> "parseActListPage", arg |-> raw,
                       ret |-> parseActListPage([rows |-> rows, next |-> raw.next]),
                       pushed |-> [i \in 1..Len(rows) |-> ParseRow(rows[i]) # <<>>]]
    /\ UNCHANGED <<fvars, pvars, chk>>

MaxRefTokens == 4

RefTokens == {"Section", "sEcTiOn", " ", ".", "4", "66(1)"}

\* buildProvision(sectionNo, title, content) on a section number given by
\* its parts
ProvisionRef ==
    /\ pure = NoCall
    /\ \E parts \in TokenSeqs(RefTokens, MaxRefTokens) :
          pure' = [fn |-> "buildProvisionRef", arg |-> parts,
                   ret |-> buildProvision(Join(parts), "", "").provision_ref]
    /\ UNCHANGED <<fvars, pvars, chk>>

\* citations: an optional label, reference, comma, title, comma, year, label
\* and reference, in this order
Optional(words) == {<<>>} \cup {<<w>> : w \in words}

Citations ==
    {l1 \o r1 \o c1 \o ti \o c2 \o y \o l2 \o r2 :
        l1 \in Optional(ArticleLabels \cup FullLabels),
        r1 \in Optional({"21", "43A", "4(1)(a)", "4(1)(2)"}),
        c1 \in Optional({","}),
        ti \in Optional(TitleWords),
        c2 \in Optional({","}),
        y \in Optional(YearWords),
        l2 \in Optional({"s."}),
        r2 \in Optional({"43A"})}

DocIT == [id |-> "act-21-2000", title |-> "IT Act, 2000", status |-> "in_force"]
DocConstitution ==
    [id |-> "act-0-1950", title |-> "Constitution of India, 1950",
     status |-> "in_force"]
DocOldIT == [id |-> "act-9-2000", title |-> "Old IT Act, 2000", status |-> "repealed"]

StoredProvisions ==
    {[document_id |-> "act-21-2000", provision_ref |-> "s43A", section |-> "43A"],
     [document_id |-> "act-21-2000", provision_ref |-> "s4(1)", section |-> "4((1))"],
     [document_id |-> "act-0-1950", provision_ref |-> "s21", section |-> "21"]}

CitationDatabases ==
    {[documents |-> docs,
      provisions |-> {prov \in StoredProvisions :
                         \E d \in docs : d.id = prov.document_id}] :
        docs \in SUBSET {DocIT, DocConstitution, DocOldIT}}

\* validateCitation(db, citation)
ValidateCitation ==
    /\ pure = NoCall
    /\ \E db \in CitationDatabases, words \in Citations :
          LET found == DocsFound(db, parseCitation(words))
          IN  \E doc \in (IF found = {} THEN {DocIT} ELSE found) :
                 pure' = [fn |-> "validateCitation",
                          arg |-> [db |-> db, citation |-> words],
                          ret |-> validateCitation(db, words, doc)]
    /\ UNCHANGED <<fvars, pvars, chk>>

\* ---------------------------------------------------------------------------
\* src/tools: the tool registry
\* ---------------------------------------------------------------------------
\* the names of TOOLS
TOOLS ==
    {"search_legislation", "get_provision", "list_sources", "validate_citation",
     "build_legal_stance", "format_citation", "check_currency", "get_eu_basis",
     "get_indian_implementations", "search_eu_implementations",
     "get_provision_eu_basis", "validate_eu_compliance"}

\* buildTools(context), lines 540-542
buildTools(context) == IF context THEN TOOLS \cup {"about"} ELSE TOOLS

\* what a tool does when it is called: it returns a result or throws, an
\* Error or any other value
Returns(n) == [kind |-> "return", results |-> n, isErrorObject |-> FALSE, message |-> ""]
ThrowsError(m) == [kind |-> "throw", results |-> 0, isErrorObject |-> TRUE, message |-> m]
ThrowsValue(v) == [kind |-> "throw", results |-> 0, isErrorObject |-> FALSE, message |-> v]
NotCalled == [kind |-> "none", results |-> 0, isErrorObject |-> FALSE, message |-> ""]

ToolOutcomes ==
    {Returns(0), Returns(7), ThrowsError("no such table: legal_documents"),
     ThrowsValue("closed")}

\* JSON.stringify(result, null, 2)
Stringify(results) == "{\n  \"results\": " \o ToString(results) \o "\n}"

\* a response: isError is a key of it or not
ErrorResponse(text) == [threw |-> FALSE, keys |-> {"content", "isError"},
                        isError |-> TRUE, text |-> text]
ResultResponse(text) == [threw |-> FALSE, keys |-> {"content"},
                         isError |-> FALSE, text |-> text]
ToolThrew(message) == [threw |-> TRUE, keys |-> {}, isError |-> FALSE, text |-> message]

\* the switch at lines 561-613: the tool that is called, if any
Dispatched(name, context) ==
    IF name \in TOOLS \/ (name = "about" /\ context) THEN name ELSE "none"

\* lines 558-617, the try block
CallTool_uncaught(name, context, outcome) ==
    IF name = "about" /\ ~context THEN ErrorResponse("About tool not configured.")
    ELSE IF Dispatched(name, context) = "none"
    THEN ErrorResponse("Error: Unknown tool \"" \o name \o "\".")
    ELSE IF outcome.kind = "throw" THEN ToolThrew(outcome.message)
    ELSE ResultResponse(Stringify(outcome.results))

\* the CallTool handler, lines 555-625: the catch turns what the try block
\* threw into a response, with error.message or String(error) as its text
CallTool(name, context, outcome) ==
    LET r == CallTool_uncaught(name, context, outcome)
    IN  IF r.threw THEN ErrorResponse("Error: " \o r.text) ELSE r

\* the parsed citations a caller may hand to formatCitation: what
\* parseCitation returns and records put together by hand
ParsedCitations ==
    {parseCitation(words) : words \in Citations}
    \cup [valid : BOOLEAN, type : {"statute"}, title : {"", "IT Act"},
          year : {0, 2000}, section : {"", "4", "43A"},
          subsection : {"", "1"}, clause : {"", "a"}, error : {""}]

\* formatCitation(parsed, format)
FormatCitation ==
    /\ pure = NoCall
    /\ \E parsed \in ParsedCitations, format \in CitationFormats :
          pure' = [fn |-> "formatCitation",
                   arg |-> [parsed |-> parsed, format |-> format],
                   ret |-> formatCitation(parsed, format)]
    /\ UNCHANGED <<fvars, pvars, chk>>

\* elements of an act page: a section with its number and content, one whose
\* number is bracketed and whose content is in its own text only, one whose
\* number cell has no digit, one whose content is shorter than 10 characters
ElNumbered ==
    [num |-> <<"4.">>, heading |-> <<"Definitions">>,
     content |-> <<"<p>", "In this Act, unless the context", "</p>">>,
     html |-> <<"4.", "In this Act, unless the context">>]
ElBracketed ==
    [num |-> <<"[", "43A", "]">>, heading |-> <<>>, content |-> <<>>,
     html |-> <<"<td>", "[43A]", "</td>", " ", "<td>",
                "Compensation for failure", "</td>">>]
ElHeading ==
    [num |-> <<"<b>", "Chapter", "</b>">>, heading |-> <<"Preliminary">>,
     content |-> <<"Preliminary provisions">>, html |-> <<"Preliminary provisions">>]
ElShort ==
    [num |-> <<"5">>, heading |-> <<"Repeal">>, content |-> <<"Omitted.">>,
     html |-> <<"5", " ", "Repeal", " ", "Omitted.">>]

MaxMatches == 1

\* what one selector may match
Matches == UNION {[1..n -> {ElNumbered, ElBracketed, ElHeading, ElShort}] :
                     n \in 0..MaxMatches}

\* act pages: up to three of the selectors match something, the last of them
\* one element at most
ActHtmlPages ==
    {[s \in {sectionSelectors[k] : k \in 1..Len(sectionSelectors)} |->
         IF s = sectionSelectors[a] THEN ma
         ELSE IF s = sectionSelectors[b] THEN mb
         ELSE IF s = sectionSelectors[c] THEN mc
         ELSE <<>>] :
        a \in 1..3, b \in 2..4, c \in 3..5, ma \in Matches, mb \in Matches,
        mc \in {m \in Matches : Len(m) <= 1}}

ActTitles ==
    {<<"IT", "Act">>, <<"The", "Information", "Technology", "Act,">>,
     <<"an", "act", "of", "the", "year">>}

\* parseActHtml(html, year, actNumber, actTitle, actUrl)
ParseActHtml ==
    /\ pure = NoCall
    /\ \E matches \in ActHtmlPages, actTitle \in ActTitles :
          pure' = [fn |-> "parseActHtml",
                   arg |-> [matches |-> matches, actTitle |-> actTitle],
                   ret |-> parseActHtml(matches, 2000, 21, actTitle, "/handle/1")]
    /\ UNCHANGED <<fvars, pvars, chk>>

\* ---------------------------------------------------------------------------
\* extractSectionRefs: the section references of an act page
\* ---------------------------------------------------------------------------
\* An anchor is its id attribute (hasId FALSE when it has none), the text of
\* its span.label-info, and the text after the span.

\* attr('id') ?? ''
AttrId(el) == IF el.hasId THEN el.id ELSE ""

\* String.prototype.split('#')
RECURSIVE SplitHash(_)
SplitHash(s) ==
    IF \A k \in 1..Len(s) : CharAt(s, k) # "#" THEN <<s>>
    ELSE LET k == CHOOSE i \in 1..Len(s) :
                      /\ CharAt(s, i) = "#"
                      /\ \A j \in 1..(i - 1) : CharAt(s, j) # "#"
         IN  <<SubSeq(s, 1, k - 1)>> \o SplitHash(SubSeq(s, k + 1, Len(s)))

UpperLetters ==
    {"A", "B", "C", "D", "E", "F", "G", "H", "I", "J", "K", "L", "M", "N", "O",
     "P", "Q", "R", "S", "T", "U", "V", "W", "X", "Y", "Z"}

\* [\w.]
IsWordOrDot(c) == c \in LowerLetters \cup UpperLetters \cup {"_", "."} \/ IsDigit(c)

\* the length of the longest run of [\w.] that starts at position i of s
RECURSIVE WordRun(_, _)
WordRun(s, i) ==
    IF i <= Len(s) /\ IsWordOrDot(CharAt(s, i)) THEN 1 + WordRun(s, i + 1) ELSE 0

\* the length of the longest run of \s that starts at position i of s
RECURSIVE BlankRun(_, _)
BlankRun(s, i) ==
    IF i <= Len(s) /\ IsSpace(CharAt(s, i)) THEN 1 + BlankRun(s, i + 1) ELSE 0

\* /Section\s+([\w.]+)/i matches at position i of s
SectionAt(s, i) ==
    /\ StartsWithSection(SubSeq(s, i, Len(s)))
    /\ BlankRun(s, i + 7) >= 1
    /\ WordRun(s, i + 7 + BlankRun(s, i + 7)) >= 1

\* String.prototype.match with /Section\s+([\w.]+)/i: the leftmost match, its
\* group and the position after it
SectionMatch(s) ==
    IF \A i \in 1..Len(s) : ~SectionAt(s, i)
    THEN [found |-> FALSE, group |-> "", after |-> 1]
    ELSE LET i == CHOOSE k \in 1..Len(s) :
                      SectionAt(s, k) /\ \A j \in 1..(k - 1) : ~SectionAt(s, j)
             from == i + 7 + BlankRun(s, i + 7)
             n == WordRun(s, from)
         IN  [found |-> TRUE, group |-> SubSeq(s, from, from + n - 1),
              after |-> from + n]

\* line 150: replace(/\.$/, '')
DropFinalDot(s) ==
    IF Len(s) >= 1 /\ CharAt(s, Len(s)) = "." THEN SubSeq(s, 1, Len(s) - 1) ELSE s

\* lines 148-150
SectionNoOf(el) ==
    LET m == SectionMatch(DropBlanksEnd(DropBlanks(el.label)))
    IN  IF m.found THEN DropFinalDot(m.group) ELSE ""

\* lines 153-156: the text after "Section X."
RefTitleOf(el) ==
    LET fullText == DropBlanksEnd(DropBlanks(el.label \o el.rest))
        m == SectionMatch(fullText)
    IN  IF m.found
        THEN DropBlanksEnd(DropBlanks(SubSeq(fullText, m.after, Len(fullText))))
        ELSE fullText

RefActId_own(idParts, actId) == idParts[1]

\* line 161: idParts[0] || actId
RefActId(idParts, actId) == IF idParts[1] # "" THEN idParts[1] ELSE actId

\* lines 139-166: the callback of each() on one anchor
RefsOf(el, actId) ==
    LET idParts == SplitHash(AttrId(el))
    IN  IF Len(idParts) < 2 THEN <<>>
        ELSE IF idParts[2] = "" \/ SectionNoOf(el) = "" THEN <<>>
        ELSE <<[actId |-> RefActId(idParts, actId), sectionId |-> idParts[2],
                sectionNo |-> SectionNoOf(el), title |-> RefTitleOf(el)]>>

RECURSIVE EachLink(_, _)
EachLink(links, actId) ==
    IF links = <<>> THEN <<>>
    ELSE RefsOf(Head(links), actId) \o EachLink(Tail(links), actId)

\* lines 121-135: the id of the act
PageActId(html) ==
    LET fromPreamble == IF html.preamble # <<>> THEN AttrId(html.preamble[1]) ELSE ""
        firstId == IF html.links # <<>> THEN AttrId(html.links[1]) ELSE ""
    IN  IF fromPreamble # "" THEN fromPreamble ELSE SplitHash(firstId)[1]

extractSectionRefs(html) ==
    [actId |-> PageActId(html), sections |-> EachLink(html.links, PageActId(html))]

\* ids of anchors
AnchorIds ==
    {[hasId |-> FALSE, id |-> ""]} \cup
    {[hasId |-> TRUE, id |-> i] : i \in {"", "A1#S2#O3", "#S4#O3", "B7", "A1#"}}

\* labels of section links, with the text that follows them
LinkTexts ==
    {[label |-> " Section 4. ", rest |-> "Definitions"],
     [label |-> "SECTION 43A", rest |-> " Compensation "],
     [label |-> "Section .", rest |-> ""],
     [label |-> "Chapter I", rest |-> " Preliminary"]}

SectionLinks ==
    {[hasId |-> i.hasId, id |-> i.id, label |-> l.label, rest |-> l.rest] :
        i \in AnchorIds, l \in LinkTexts}

MaxLinks == 2

\* the preamble anchor, when there is one, and the section links
ActPageAnchors ==
    {[preamble |-> p, links |-> l] :
        p \in {<<>>} \cup {<<[hasId |-> h, id |-> i]>> :
                               h \in BOOLEAN, i \in {"", "P9"}},
        l \in UNION {[1..n -> SectionLinks] : n \in 0..MaxLinks}}

ExtractSectionRefs ==
    /\ pure = NoCall
    /\ \E html \in ActPageAnchors :
          pure' = [fn |-> "extractSectionRefs", arg |-> html,
                   ret |-> extractSectionRefs(html)]
    /\ UNCHANGED <<fvars, pvars, chk>>

ToolNames == TOOLS \cup {"about", "no_such_tool"}

\* a CallTool request to a server registered with or without a context
CallToolRequest ==
    /\ pure = NoCall
    /\ \E name \in ToolNames, context \in BOOLEAN :
          \E outcome \in (IF Dispatched(name, context) = "none"
                           THEN {NotCalled} ELSE ToolOutcomes) :
             pure' = [fn |-> "CallTool",
                      arg |-> [name |-> name, context |-> context,
                               listed |-> name \in buildTools(context),
                               tool |-> outcome],
                      ret |-> CallTool(name, context, outcome)]
    /\ UNCHANGED <<fvars, pvars, chk>>

\* ingest.ts lines 428-433 on a body: parse, assemble, build the provision
SectionContent ==
    /\ pure = NoCall
    /\ \E body \in JsonBodies :
          LET parsed == parseSectionContentJson(body)
          IN  pure' = [fn |-> "sectionContent", arg |-> body, parsed |-> parsed,
                       ret |-> buildProvision("4", "Definitions",
                                              fullContent(parsed))]
    /\ UNCHANGED <<fvars, pvars, chk>>

\* the call is over
Return ==
    /\ pure # NoCall
    /\ pure' = NoCall
    /\ UNCHANGED <<fvars, pvars, chk>>

InitParse ==
    /\ InitFetch /\ InitRun /\ chk = NoCheck
    /\ replay = ReplayOff
    /\ indexFile = NoIndex
    /\ seedFiles = [f \in SeedNames |-> Absent]

NextParse ==
    \/ SectionContent
    \/ ListPage
    \/ ProvisionRef
    \/ ValidateCitation
    \/ FormatCitation
    \/ CallToolRequest
    \/ ParseActHtml
    \/ ExtractSectionRefs
    \/ Return

SpecParse == InitParse /\ [][NextParse]_vars

\* one run of the update checker over the database it finds
InitCheck ==
    /\ InitFetch /\ InitRun
    /\ replay = ReplayOff
    /\ indexFile = NoIndex
    /\ seedFiles = [f \in SeedNames |-> Absent]
    /\ chk \in {[NoCheck EXCEPT !.db = d] : d \in Databases}

NextCheck ==
    \/ CheckMain
    \/ CheckQuery
    \/ \E out \in FetchOutcomes : CheckFetch(out)
    \/ CheckCompare
    \/ CheckSummary

SpecCheck == InitCheck /\ [][NextCheck]_vars

\* ---------------------------------------------------------------------------
\* Properties of the transport (SpecFetch)
\* ---------------------------------------------------------------------------
CallFinished == fpc = "idle" /\ result.kind # "none"
DefaultCap == maxRetries = DEFAULT_MAX_RETRIES

\* C1: any two consecutive outbound requests of default-cap calls, the last
\* attempt of one call and the first attempt of the next included, start at
\* least 500 ms apart.
C1_MinSpacing ==
    (Len(sent) = 2 /\ sent[1].cap = 3 /\ sent[2].cap = 3)
        => sent[2].at - sent[1].at >= 500

\* C2: with the default cap, a response 429 or >= 500 on attempt k (0, 1, 2)
\* is followed by a wait of 2^(k+1) s and another request to the same url,
\* any other status ends the call, there are at most 4 requests and no wait
\* before the first, and 429, 429, 200 gives 3 requests, waits 2 s and 4 s,
\* and returns 200.
C2_RetrySchedule ==
    DefaultCap =>
        /\ Len(reqs) <= 4
        /\ \A k \in 1..Len(reqs) : reqs[k] = url
        /\ Len(waits) = (IF reqs = <<>> THEN 0 ELSE Len(reqs) - 1)
        /\ \A k \in 1..Len(waits) :
              /\ statuses[k] = 429 \/ statuses[k] >= 500
              /\ waits[k] = CASE k = 1 -> 2000 [] k = 2 -> 4000 [] OTHER -> 8000
        /\ (CallFinished /\ result.kind = "return") =>
              /\ Len(statuses) = Len(reqs)
              /\ result.status = statuses[Len(statuses)]
              /\ \/ Len(reqs) = 4
                 \/ ~(result.status = 429 \/ result.status >= 500)
        /\ (CallFinished /\ statuses = <<429, 429, 200>>) =>
              /\ Len(reqs) = 3
              /\ waits = <<2000, 4000>>
              /\ result.kind = "return" /\ result.status = 200

C2_Witness ==
    /\ DefaultCap /\ CallFinished
    /\ statuses = <<429, 429, 200>>
    /\ result.kind = "return"

\* C3: with the default cap the call never raises because of an HTTP status
\* (it raises only when fetch itself rejected), and when all 4 attempts got
\* 429 or >= 500 it returns the status and body of the fourth response.
C3_ReturnsLastResponse ==
    (DefaultCap /\ CallFinished) =>
        /\ result.kind = "raise" =>
              result.error = "network" /\ Len(statuses) < Len(reqs)
        /\ (Len(statuses) = 4
              /\ \A k \in 1..4 : statuses[k] = 429 \/ statuses[k] >= 500) =>
              /\ result.kind = "return"
              /\ result.status = statuses[4]
              /\ result.body = <<url, 4>>

C3_Witness ==
    /\ DefaultCap /\ CallFinished
    /\ Len(statuses) = 4
    /\ result.kind = "return" /\ result.status = 500

C19_State ==
    /\ inflight.calls \in {0, 1}
    /\ inflight.requests \in {0, 1}
    /\ inflight.calls = 1 <=> fpc # "idle"
    /\ inflight.requests = 1 <=> fpc = "fetch"

\* between the read of lastRequestTime and its write no call starts, and
\* only the call that read it writes it
C19_RateLimitStep ==
    /\ fpc \in {"rateLimit", "stamp"} =>
          /\ calls' = calls
          /\ inflight' = inflight
          /\ fpc' \in {"stamp", "loop"}
    /\ lastRequestTime' # lastRequestTime => (fpc = "stamp" /\ fpc' = "loop")

IsPlaceholder(f) == f.state = "ok" /\ f.record.provisions = <<>>

ActPageFailed(req) == req.kind = "act" /\ (req.status # 200 \/ req.n = 0)

\* C4: an act whose seed file exists, parses and has a provision with content
\* gets no act-page or section request and no seed write, in this run or any
\* later one: the file is never modified.
C4_CompleteSeedUntouched ==
    [][\A f \in SeedNames :
          SeedComplete(seedFiles[f]) =>
              /\ seedFiles'[f] = seedFiles[f]
              /\ lastWrite'.key # f
              /\ ~(lastReq'.kind \in {"act", "section"} /\ lastReq'.key = f)]_vars

C4_Witness ==
    /\ pc = "acts" /\ skipped = 2 /\ actIdx = 3
    /\ \A f \in SeedNames : SeedComplete(seedFiles[f])

\* C5: once an act has a placeholder seed (a record with no provisions), its
\* page is not requested again.
C5_PlaceholderNotRetried ==
    [][\A f \in SeedNames :
          IsPlaceholder(seedFiles[f]) =>
              ~(lastReq'.kind = "act" /\ lastReq'.key = f)]_vars

\* C6: an act page answered with a status other than 200, or with 200 and no
\* section reference, gets a seed with id act-{actNumber}-{year} and no
\* provisions (unless the write itself fails), and no section request: a
\* section request follows only a 200 page with sections, or another section
\* request, of the same act.
C6_PlaceholderState ==
    (ActPageFailed(lastReq) /\ lastReq.status # 0) =>
        /\ pc = "acts"
        /\ lastWrite.kind \in {"minimal", "failed"}
        /\ lastWrite.key = lastReq.key
        /\ lastWrite.kind = "minimal" =>
              LET act == toProcess[actIdx - 1]
                  seed == seedFiles[lastReq.key]
              IN  /\ lastReq.key = ToString(act.actNumber) \o "_"
                                    \o ToString(act.year) \o ".json"
                  /\ seed.state = "ok"
                  /\ seed.record.id = "act-" \o ToString(act.actNumber) \o "-"
                                       \o ToString(act.year)
                  /\ seed.record.provisions = <<>>

C6_SectionRequestStep ==
    lastReq'.kind = "section" =>
        /\ lastReq.kind \in {"act", "section"}
        /\ lastReq.key = lastReq'.key
        /\ lastReq.kind = "act" => (lastReq.status = 200 /\ lastReq.n > 0)

C6_FailedPageGetsPlaceholder ==
    []C6_PlaceholderState /\ [][C6_SectionRequestStep]_vars

C6_Witness ==
    /\ lastReq.kind = "act" /\ lastReq.status = 404
    /\ lastWrite.kind = "minimal"
    /\ IsPlaceholder(seedFiles[lastReq.key])

\* C7: a failed re-processing of an act (page not 200, no sections, or an
\* exception) leaves the provisions of its existing seed file as they were.
C7_FailureKeepsProvisions ==
    [][\A f \in SeedNames :
          (seedFiles[f].state = "ok" /\ ActPageFailed(lastReq') /\ lastReq'.key = f)
              => /\ seedFiles'[f].state = "ok"
                 /\ seedFiles'[f].record.provisions = seedFiles[f].record.provisions]_vars

\* C8: every act of the truncated index is entered exactly once, in index
\* order; an exception at an act (rejected fetch, failed write) or at a
\* section leaves the run in the loop, at the next act or section.
C8_VisitsEveryAct ==
    /\ pc \in {"acts", "sections", "write"} =>
          LET n == IF pc = "acts" THEN actIdx - 1 ELSE actIdx
          IN  /\ n <= Len(toProcess)
              /\ Len(visited) = n
              /\ \A k \in 1..n : visited[k] = k
    /\ pc = "acts" => processed = actIdx - 1
    /\ (lastReq.kind = "act" /\ lastReq.status = 0) => pc = "acts"
    /\ lastWrite.kind = "failed" => pc = "acts"
    /\ (lastReq.kind = "section" /\ lastReq.status = 0) =>
          /\ pc \in {"sections", "write"}
          /\ secIdx = lastReq.n + 1

C8_Witness ==
    /\ pc = "acts" /\ Len(toProcess) = 2 /\ actIdx = 3
    /\ visited = <<1, 2>>
    /\ failed = 2
    /\ lastReq.kind = "act" /\ lastReq.status = 0

\* C9: a page with n >= 1 section references gives a record with exactly n
\* provisions, the k-th built from the k-th reference, whatever each content
\* fetch gave; a fetch that gave no body leaves the content empty.
BuiltFrom(provs, refs, got) ==
    /\ Len(got) = Len(provs)
    /\ Len(provs) <= Len(refs)
    /\ \A k \in 1..Len(provs) :
          /\ provs[k].section = refs[k].sectionNo
          /\ provs[k].title = refs[k].title
          /\ provs[k].provision_ref = "s" \o refs[k].sectionNo
          /\ ~got[k] => provs[k].content = ""

C9_OneProvisionPerSection ==
    /\ pc \in {"sections", "write"} =>
          /\ Len(provisions) = secIdx - 1
          /\ BuiltFrom(provisions, sections, fetched)
    /\ lastWrite.kind = "full" =>
          LET rec == seedFiles[lastWrite.key].record
          IN  /\ Len(lastWrite.sections) >= 1
              /\ Len(rec.provisions) = Len(lastWrite.sections)
              /\ BuiltFrom(rec.provisions, lastWrite.sections, lastWrite.fetched)

C9_Witness ==
    /\ lastWrite.kind = "full"
    /\ Len(lastWrite.sections) = 2
    /\ lastWrite.fetched = <<FALSE, TRUE>>
    /\ seedFiles[lastWrite.key].record.provisions[1].content = ""
    /\ seedFiles[lastWrite.key].record.provisions[2].content # ""

\* ---------------------------------------------------------------------------
\* Properties of discoverActs (SpecDiscover)
\* ---------------------------------------------------------------------------
Continues(r) == r.status = 200 /\ r.entries > 0 /\ r.next

C10_Bounded ==
    /\ Len(crawl) <= 100
    /\ \A k \in 1..(Len(crawl) - 1) : Continues(crawl[k])
    /\ pc = "discover" =>
          /\ Len(crawl) = page - 1
          /\ crawl # <<>> => Continues(crawl[Len(crawl)])
    /\ pc = "dedup" =>
          /\ crawl # <<>>
          /\ ~Continues(crawl[Len(crawl)]) \/ Len(crawl) = 100
          /\ lastReq.kind = "list" /\ lastReq.n = Len(crawl)

\* every turn of the loop either leaves it or moves to the next page, and no
\* turn starts beyond page 100
C10_Progress ==
    pc = "discover" =>
        /\ page <= 100
        /\ pc' = "discover" => page' = page + 1
        /\ pc' \in {"discover", "dedup", "idle"}

\* C10: discoverActs ends for every upstream: it requests pages 1, 2, ... one
\* listing fetch each, stops at the first response that is not 200, has no
\* parsed entry or no next-page signal, and makes at most 100 listing fetches,
\* so the loop ends after at most 100 turns.
C10_DiscoveryTerminates ==
    []C10_Bounded /\ [][C10_Progress]_vars

C10_Witness ==
    /\ pc = "dedup"
    /\ Len(crawl) = 100
    /\ Continues(crawl[100])

\* the (year, actNumber) key of an index entry
EntryKey(entry) == <<entry.year, entry.actNumber>>

\* the position of the first entry of list with the key
FirstPos(list, key) ==
    CHOOSE k \in 1..Len(list) :
        /\ EntryKey(list[k]) = key
        /\ \A m \in 1..(k - 1) : EntryKey(list[m]) # key

\* C11: the index that discoverActs saves and returns holds at most one entry
\* per (year, actNumber), that entry is the first one crawled with the key,
\* every crawled key is kept, and the kept entries are in crawl order.
C11_FirstPerKey ==
    lastWrite.kind = "index" =>
        LET crawled == lastWrite.crawled
            index == indexFile.entries
        IN  /\ indexFile.exists
            /\ acts = index
            /\ \A a, b \in 1..Len(index) :
                  a # b => EntryKey(index[a]) # EntryKey(index[b])
            /\ \A k \in 1..Len(crawled) :
                  \E a \in 1..Len(index) : EntryKey(index[a]) = EntryKey(crawled[k])
            /\ \A a \in 1..Len(index) :
                  /\ \E k \in 1..Len(crawled) : EntryKey(crawled[k]) = EntryKey(index[a])
                  /\ index[a] = crawled[FirstPos(crawled, EntryKey(index[a]))]
            /\ \A a, b \in 1..Len(index) :
                  a < b => FirstPos(crawled, EntryKey(index[a]))
                               < FirstPos(crawled, EntryKey(index[b]))

C11_Witness ==
    /\ lastWrite.kind = "index"
    /\ Len(indexFile.entries) = 2
    /\ Len(lastWrite.crawled) > 2
    /\ \E k \in 1..Len(lastWrite.crawled) :
          lastWrite.crawled[k].title = RowADup.title
Min(a, b) == IF a < b THEN a ELSE b

\* C12: with --limit N the run processes exactly the first min(N, |index|)
\* entries of the index, so at most N acts, for every N including 0.
C12_LimitCaps ==
    (pc \in {"acts", "sections", "write"} /\ limit.kind = "int") =>
        /\ Len(toProcess) <= limit.n
        /\ toProcess = SubSeq(acts, 1, Min(limit.n, Len(acts)))
\* ---------------------------------------------------------------------------
\* Properties of main (Spec)
\* ---------------------------------------------------------------------------
InActLoop == pc \in {"acts", "sections", "write"}

\* main starts: with skipDiscovery and an index file, the stored entries are
\* taken as they are (an index that does not parse ends the run), else
\* discovery is entered
C13_MainStep ==
    pc = "idle" =>
        IF skipDiscovery' /\ pc' # "idle"
        THEN IF indexFile.exists
             THEN /\ pc' = "phase2"
                  /\ acts' = indexFile.entries
                  /\ indexFile' = indexFile
                  /\ lastReq' = NoReq
             ELSE pc' = "discover"
        ELSE /\ pc' = "idle" => (indexFile.exists /\ ~indexFile.valid)
             /\ pc' # "idle" => pc' = "discover"

\* past discovery no step requests a listing page or writes the index
C13_NoDiscoveryStep ==
    (pc = "phase2" \/ InActLoop) =>
        /\ lastReq'.kind # "list"
        /\ lastWrite'.kind # "index"
        /\ indexFile' = indexFile

\* the acts of the run are the stored entries in stored order
C13_StoredOrder ==
    InActLoop =>
        /\ acts = indexFile.entries
        /\ limit = NoLimit => toProcess = indexFile.entries

\* C13: with skipDiscovery set and an index file present, main requests no
\* listing page, does not write the index and processes exactly the stored
\* entries in stored order; in every other case discovery runs.
C13_SkipDiscoveryReusesIndex ==
    /\ [][C13_MainStep]_vars
    /\ [][C13_NoDiscoveryStep]_vars
    /\ []C13_StoredOrder

C13_Witness ==
    /\ pc = "phase2" /\ skipDiscovery
    /\ lastWrite = NoWrite
    /\ Len(acts) = 2 /\ acts = indexFile.entries

C17_ExitStep ==
    /\ (pc # "idle" /\ pc' = "idle") =>
          /\ pc \in {"discover", "dedup", "phase2", "acts"}
          /\ exitCode' = (IF pc = "acts" THEN 0 ELSE 1)
          /\ lastWrite'.kind = (IF pc = "acts" THEN "report" ELSE "fatal")
    /\ (pc = "idle" /\ pc' = "idle") =>
          /\ exitCode' = 1
          /\ lastWrite'.kind = "fatal"
    /\ pc' # "idle" => exitCode' = exitCode

C17_ExitState ==
    /\ exitCode \in {0, 1}
    /\ pc = "idle" =>
          /\ exitCode = 1 <=> lastWrite.kind = "fatal"
          /\ lastWrite.kind = "report" => lastWrite.processed >= lastWrite.failed

\* C17: the process exits with 1 exactly when an exception left main
\* (discovery, reading or writing the index, creating the seed directory)
\* and with 0 when main returned; failures at acts and sections, even at
\* every act, leave the exit code alone.
C17_ExitCode ==
    [][C17_ExitStep]_vars /\ []C17_ExitState

C17_Witness ==
    /\ pc = "idle" /\ exitCode = 0
    /\ lastWrite.kind = "report"
    /\ lastWrite.processed = 2 /\ lastWrite.failed = 2
Unparsable(seed) == seed.state \in {"corrupt", "nolist"}

\* the act the loop is at has a seed file that does not parse as a record
AtUnparsableSeed ==
    /\ pc = "acts" /\ actIdx <= Len(toProcess)
    /\ Unparsable(seedFiles[SeedFile(toProcess[actIdx])])

C16_Step ==
    LET file == SeedFile(toProcess[actIdx])
    IN  /\ AtUnparsableSeed =>
              /\ lastReq'.kind = "act" /\ lastReq'.key = file
              /\ pc' \in {"acts", "sections"}
              /\ exitCode' = exitCode
              /\ skipped' = skipped
              /\ lastWrite'.kind = "minimal" =>
                    (seedFiles'[file].state = "ok" /\ lastWrite'.key = file)
              /\ lastWrite'.kind # "minimal" => seedFiles'[file] = seedFiles[file]
        /\ (pc = "write" /\ Unparsable(seedFiles[file])) =>
              /\ pc' = "acts"
              /\ lastWrite'.kind = "full" =>
                    (seedFiles'[file].state = "ok" /\ lastWrite'.key = file)

C18_Step ==
    /\ lastReq'.kind = "act" =>
          /\ pc = "acts"
          /\ actIdx = Len(visited) + 1
          /\ visited' = Append(visited, actIdx)
          /\ lastReq'.key = SeedFile(toProcess[actIdx])
          /\ pc' = "sections" => (actIdx' = actIdx /\ fetched' = <<>>)
    /\ lastReq'.kind = "section" =>
          /\ pc = "sections"
          /\ visited # <<>> /\ visited[Len(visited)] = actIdx
          /\ visited' = visited /\ actIdx' = actIdx
          /\ lastReq.kind \in {"act", "section"}
          /\ lastReq.key = lastReq'.key
          /\ lastReq'.key = SeedFile(toProcess[actIdx])
          /\ lastReq'.n = Len(fetched) + 1
          /\ Len(fetched') = lastReq'.n
          /\ lastReq'.ref = <<sections[lastReq'.n].actId,
                              sections[lastReq'.n].sectionId>>
          /\ pc' = (IF lastReq'.n = Len(sections) THEN "write" ELSE "sections")
    /\ pc = "sections" => lastReq'.kind = "section"

\* C18: requests follow index order and extraction order: the page of an act
\* is requested before its sections, its sections are requested in the order
\* of the extracted references, one after the other, and the page of the
\* next act is requested only when every section of this act was requested.
C18_RequestOrder ==
    /\ [][C18_Step]_vars
    /\ [](\A k \in 1..Len(visited) : visited[k] = k)

C18_Witness ==
    /\ lastReq.kind = "section" /\ lastReq.n = 2
    /\ lastReq.ref = <<Sec2.actId, Sec2.sectionId>>
    /\ visited = <<1, 2>>
    /\ pc = "write"
\* ---------------------------------------------------------------------------
\* Record ids and seed file names (Spec)
\* ---------------------------------------------------------------------------
\* the decimal digits of a number of the index
Digits(n) ==
    CASE n = 1 -> "1" [] n = 2 -> "2" [] n = 2000 -> "2000" [] n = 2001 -> "2001"

C20_WriteStep ==
    lastWrite'.kind \in {"minimal", "full"} =>
        LET act == toProcess[actIdx]
        IN  /\ lastWrite'.key = Digits(act.actNumber) \o "_" \o Digits(act.year)
                                    \o ".json"
            /\ seedFiles'[lastWrite'.key].state = "ok"
            /\ seedFiles'[lastWrite'.key].record.id =
                  "act-" \o Digits(act.actNumber) \o "-" \o Digits(act.year)
            /\ \A f \in SeedNames \ {lastWrite'.key} : seedFiles'[f] = seedFiles[f]

C20_Distinct ==
    InActLoop =>
        \A a, b \in 1..Len(toProcess) :
            a # b => /\ ActId(toProcess[a]) # ActId(toProcess[b])
                     /\ SeedFile(toProcess[a]) # SeedFile(toProcess[b])

\* C20: every seed record written has the id act-{actNumber}-{year} of the
\* index entry being processed and goes to that entry's file, and no two
\* entries processed in one run have the same id or the same file name.
C20_IdsUniquePerRun ==
    [][C20_WriteStep]_vars /\ []C20_Distinct

C20_Witness ==
    /\ pc = "acts" /\ Len(toProcess) = 2 /\ actIdx = 3
    /\ seedFiles["1_2000.json"].state = "ok"
    /\ seedFiles["1_2000.json"].record.id = "act-1-2000"
    /\ seedFiles["1_2001.json"].state = "ok"
    /\ seedFiles["1_2001.json"].record.id = "act-1-2001"
    /\ lastWrite.kind = "full" /\ lastWrite.key = "1_2001.json"
\* ---------------------------------------------------------------------------
\* Runs against an unchanged upstream (SpecReplay, FairSpecReplay)
\* ---------------------------------------------------------------------------
\* the second run requests no listing page and writes no index
NoDiscoveryInSecondRun ==
    replay.phase \in {"again", "againDone"} =>
        /\ pc \notin {"discover", "dedup"}
        /\ lastReq.kind # "list"
        /\ lastWrite.kind # "index"

\* the second run, having made no request the first run did not make, has
\* left every seed file as the first run left it
SeedsAsAfterFirstRun ==
    (replay.phase = "againDone" /\ ~replay.fresh) => seedFiles = replay.seedsA

CompleteAtInterrupt(f) == SeedComplete(replay.seedsI[f])

C15_State ==
    /\ replay.phase \in {"cut", "interrupted", "restarted", "restartedDone"} =>
          ~replay.fresh
    /\ replay.phase \in {"restarted", "restartedDone"} =>
          \A f \in SeedNames :
              CompleteAtInterrupt(f) => seedFiles[f] = replay.seedsI[f]
    /\ replay.phase = "restartedDone" =>
          /\ seedFiles = replay.seedsA
          /\ exitCode = replay.exitA

C15_Step ==
    replay.phase = "restarted" =>
        \A f \in SeedNames :
            CompleteAtInterrupt(f) =>
                /\ lastWrite'.key # f
                /\ ~(lastReq'.kind \in {"act", "section"} /\ lastReq'.key = f)

C21_OncePerRun == \A f \in SeedNames : runLog.writes[f] <= 1

C21_WriteStep ==
    \A f \in SeedNames :
        (runLog'.writes[f] > runLog.writes[f] \/ seedFiles'[f] # seedFiles[f]) =>
            /\ ~runLog.complete[f]
            /\ runLog'.writes[f] = runLog.writes[f] + 1
            /\ lastWrite'.key = f

\* C21: within a run each seed file is written at most once, and a run
\* writes a seed file only if the file was not complete (no provision with
\* content) when the run started.
C21_SeedWrittenOncePerRun ==
    /\ []C21_OncePerRun
    /\ [][C21_WriteStep]_vars

\* a later run writes again the placeholder an earlier run left
C21_Witness ==
    /\ lastWrite.kind = "minimal"
    /\ lastReq.kind = "act" /\ lastReq.was = "ok"
    /\ runLog.writes[lastWrite.key] = 1
    /\ ~runLog.complete[lastWrite.key]
    /\ \E f \in SeedNames : runLog.complete[f] /\ runLog.writes[f] = 0

\* ---------------------------------------------------------------------------
\* Properties of the helpers (SpecParse)
\* ---------------------------------------------------------------------------
\* C22: the content stored for a section is content, a blank line,
\* "[Footnote] " and footnote when the cleaned content and the cleaned
\* footnote are both non-empty, and the cleaned content in every other case.
C22_FootnoteNeedsContent ==
    pure.fn = "sectionContent" =>
        LET content == pure.parsed.content
            footnote == pure.parsed.footnote
        IN  pure.ret.content =
                IF content # "" /\ footnote # ""
                THEN content \o "\n\n[Footnote] " \o footnote
                ELSE content

\* ---------------------------------------------------------------------------
\* Section bodies that are not the expected JSON (Spec)
\* ---------------------------------------------------------------------------
\* the body is not JSON, or its value holds no content and no footnote text
Unusable(body) ==
    \/ body.json \in {"invalid", "null", "scalar"}
    \/ /\ body.json = "object"
       /\ body.content.is # "string"
       /\ body.footnote.is # "string"

UnusableBodyFetched(req) ==
    req.kind = "section" /\ req.status = 200 /\ Unusable(req.body)

C23_State ==
    UnusableBodyFetched(lastReq) =>
        /\ parseSectionContentJson(lastReq.body) =
               [raised |-> FALSE, content |-> "", footnote |-> ""]
        /\ ~lastReq.caught
        /\ Len(provisions) = lastReq.n
        /\ provisions[lastReq.n].content = ""
        /\ provisions[lastReq.n].section = sections[lastReq.n].sectionNo

C23_Step ==
    UnusableBodyFetched(lastReq') =>
        /\ failed' = failed
        /\ processed' = processed
        /\ pc' \in {"sections", "write"}

\* C23: parseSectionContentJson raises on no body; for a body that is not
\* JSON, or whose value has no content and no footnote text, it returns two
\* empty strings, the section is recorded without content and the act goes
\* on without being counted as failed.
C23_MalformedBodyIsEmptyContent ==
    /\ []C23_State
    /\ [][C23_Step]_vars

\* an act whose only section got a malformed body is written, not failed
C23_Witness ==
    /\ lastWrite.kind = "full"
    /\ lastWrite.fetched = <<TRUE>>
    /\ seedFiles[lastWrite.key].record.provisions[1].content = ""
    /\ failed = 0 /\ processed = 1

\* ---------------------------------------------------------------------------
\* Listing rows without a year (SpecParse)
\* ---------------------------------------------------------------------------
TitlesWithoutYear == {"", "The C Act", "Act 12 of 199"}
DatesWithoutYearAtEnd == {"", "2001-01-12"}

C24_Call == pure.fn = "parseActListPage"

\* C24: every entry parseActListPage returns has a year other than 0, and a
\* row with no four digits in a row in its title and none at the end of its
\* date cell gives no entry.
C24_NoEntryWithoutYear ==
    C24_Call =>
        /\ \A k \in 1..Len(pure.ret.entries) : pure.ret.entries[k].year # 0
        /\ \A i \in 1..Len(pure.arg.rows) :
              (/\ pure.arg.rows[i].title \in TitlesWithoutYear
               /\ pure.arg.rows[i].date \in DatesWithoutYearAtEnd)
                  => ~pure.pushed[i]
        /\ Len(pure.ret.entries) =
               Cardinality({i \in 1..Len(pure.arg.rows) : pure.pushed[i]})

\* a titled, linked row without a year is dropped
C24_Witness ==
    /\ C24_Call
    /\ Len(pure.arg.rows) = 1
    /\ pure.arg.rows[1].title = "The C Act"
    /\ pure.arg.rows[1].date = "2001-01-12"
    /\ pure.arg.rows[1].link # ""
    /\ pure.ret.entries = <<>>

\* ---------------------------------------------------------------------------
\* Provision references (SpecParse)
\* ---------------------------------------------------------------------------
SectionLabels == {"Section", "sEcTiOn"}

Blank(part) == part = " "

RECURSIVE DropLeadingBlanks(_)
DropLeadingBlanks(parts) ==
    IF parts # <<>> /\ Blank(Head(parts)) THEN DropLeadingBlanks(Tail(parts))
    ELSE parts

RECURSIVE DropTrailingBlanks(_)
DropTrailingBlanks(parts) ==
    IF parts # <<>> /\ Blank(parts[Len(parts)])
    THEN DropTrailingBlanks(SubSeq(parts, 1, Len(parts) - 1))
    ELSE parts

WithoutLabel(parts) ==
    IF parts # <<>> /\ Head(parts) \in SectionLabels THEN Tail(parts) ELSE parts

WithoutPeriod(parts) ==
    IF parts # <<>> /\ parts[Len(parts)] = "."
    THEN SubSeq(parts, 1, Len(parts) - 1)
    ELSE parts

C25_Call == pure.fn = "buildProvisionRef"

C25_Examples ==
    /\ buildProvisionRef("43A.") = "s43A"
    /\ buildProvisionRef("4") = "s4"
    /\ buildProvisionRef("66(1)") = "s66(1)"

\* C25 as stated: the reference is 's' and the section number with one
\* leading 'section' label (in any case) and one trailing period removed,
\* and nothing else changed.
C25_AsStated ==
    /\ C25_Examples
    /\ C25_Call => pure.ret = "s" \o Join(WithoutPeriod(WithoutLabel(pure.arg)))

\* C25: the reference is 's' and the section number with, in this order, one
\* leading 'section' label (in any case) and the white space after it, one
\* period that only white space follows and that white space, and the white
\* space at both ends removed, and nothing else changed.
C25_LabelPeriodAndBlanksStripped ==
    /\ C25_Examples
    /\ C25_Call =>
          pure.ret =
              "s" \o Join(DropTrailingBlanks(DropLeadingBlanks(
                         WithoutPeriod(DropTrailingBlanks(
                             DropLeadingBlanks(WithoutLabel(pure.arg)))))))

C25_Witness ==
    /\ C25_Call
    /\ pure.arg = <<"sEcTiOn", " ", "66(1)", ".">>
    /\ pure.ret = "s66(1)"

\* ---------------------------------------------------------------------------
\* Exit codes of the update checker (SpecCheck)
\* ---------------------------------------------------------------------------
\* acts the page names that no stored statute title names
MissingLocally(c) ==
    {c.html[k].act : k \in 1..Len(c.html)} \ ({""} \cup {ti.act : ti \in c.db.titles})

CheckFailed(c) == c.cause \in {"nodb", "db", "network", "http"}

\* C26: check-updates exits with 2 when the check fails (no database file, a
\* database error, a network error, a response that is not OK), else with 1
\* when an upstream act is missing locally and with 0 when none is.
C26_ExitCodes ==
    /\ chk.pc = "exited" =>
          /\ chk.exit \in {0, 1, 2}
          /\ chk.exit = 2 <=> CheckFailed(chk)
          /\ chk.exit = 1 <=> (~CheckFailed(chk) /\ MissingLocally(chk) # {})
          /\ chk.exit = 0 <=> (~CheckFailed(chk) /\ MissingLocally(chk) = {})
          /\ chk.cause = "nodb" <=> chk.db.file = "missing"
          /\ chk.cause = "db" <=> chk.db.file \in {"notdb", "notable"}
    /\ chk.pc # "exited" => chk.exit = -1

C26_Witness ==
    /\ chk.pc = "exited" /\ chk.exit = 1
    /\ Len(chk.recentActs) = 2 /\ Len(chk.newActs) = 1
    /\ chk.db.titles # {}

\* ---------------------------------------------------------------------------
\* Citations (SpecParse)
\* ---------------------------------------------------------------------------
C27_Call == pure.fn = "validateCitation"

\* no word of the citation is a section reference, which every citation
\* pattern asks for
HasNoReference(words) == \A k \in 1..Len(words) : words[k] \notin RefWords

\* C27: validateCitation on a citation that does not parse returns the
\* citation as invalid, of type unknown, with neither document nor provision
\* found and at least one warning; and no result has a provision found
\* without its document found.
C27_InvalidCitationResult ==
    C27_Call =>
        /\ HasNoReference(pure.arg.citation) => ~pure.ret.citation.valid
        /\ ~pure.ret.citation.valid =>
              /\ pure.ret.citation.type = "unknown"
              /\ ~pure.ret.document_exists
              /\ ~pure.ret.provision_exists
              /\ Len(pure.ret.warnings) >= 1
        /\ pure.ret.provision_exists => pure.ret.document_exists

C27_Witness ==
    /\ C27_Call
    /\ pure.arg.citation = <<"gibberish">>
    /\ pure.arg.db.documents # {}
    /\ ~pure.ret.citation.valid
    /\ Len(pure.ret.warnings) = 1

C28_Call == pure.fn = "formatCitation"

\* the text a caller is to find at the place of the pinpoint
Pinpoint(section, subsection, clause) ==
    CASE subsection # "" /\ clause # "" ->
            section \o "(" \o subsection \o ")(" \o clause \o ")"
      [] subsection # "" /\ clause = "" -> section \o "(" \o subsection \o ")"
      [] subsection = "" /\ clause # "" -> section \o "(" \o clause \o ")"
      [] OTHER -> section

StartsWith(t, prefix) ==
    Len(t) >= Len(prefix) /\ SubSeq(t, 1, Len(prefix)) = prefix

\* C28: formatCitation returns "" in every format for a citation that is not
\* valid or has no section; for a valid citation with a section the pinpoint
\* is the section, then the subsection in brackets when there is one, then
\* the clause in brackets when there is one, after "s. " in the short and
\* the pinpoint format and after "Section " otherwise.
C28_FormatCitation ==
    C28_Call =>
        LET parsed == pure.arg.parsed
            pin == Pinpoint(parsed.section, parsed.subsection, parsed.clause)
        IN  IF ~parsed.valid \/ parsed.section = ""
            THEN pure.ret = ""
            ELSE CASE pure.arg.format = "pinpoint" -> pure.ret = "s. " \o pin
                   [] pure.arg.format = "short" ->
                         StartsWith(pure.ret, "s. " \o pin)
                   [] OTHER -> StartsWith(pure.ret, "Section " \o pin)

C28_Witness ==
    /\ C28_Call
    /\ pure.arg.format = "full"
    /\ pure.arg.parsed.valid
    /\ pure.arg.parsed.section = "4"
    /\ pure.arg.parsed.subsection = "1" /\ pure.arg.parsed.clause = "a"
    /\ pure.ret = "Section 4(1)(a), IT Act, 2000"

\* ---------------------------------------------------------------------------
\* The tool registry (SpecParse)
\* ---------------------------------------------------------------------------
C29_Call == pure.fn = "CallTool"

HasIsError(r) == "isError" \in r.keys /\ r.isError

\* C29: the CallTool handler never throws; a tool name it does not know, the
\* about tool on a server without a context and a tool that throws each give
\* a response with isError true, and a tool that returns gives a response
\* without isError.
C29_HandlerNeverThrows ==
    C29_Call =>
        /\ ~pure.ret.threw
        /\ pure.arg.name \notin TOOLS \cup {"about"} => HasIsError(pure.ret)
        /\ pure.arg.name = "about" /\ ~pure.arg.context => HasIsError(pure.ret)
        /\ pure.arg.tool.kind = "throw" => HasIsError(pure.ret)
        /\ pure.arg.tool.kind = "return" => "isError" \notin pure.ret.keys

C29_Witness ==
    /\ C29_Call
    /\ pure.arg.name = "get_provision"
    /\ pure.arg.tool.kind = "throw" /\ ~pure.arg.tool.isErrorObject
    /\ HasIsError(pure.ret)
    /\ pure.ret.text = "Error: closed"

\* ---------------------------------------------------------------------------
\* The throw after the retry loop (SpecFetch)
\* ---------------------------------------------------------------------------
ThrewAfterRetries == result.kind = "raise" /\ result.error = "retries"

\* C30: when fetch answers every request with a response, the throw after
\* the loop of fetchWithRateLimit is not reached for any maxRetries >= 0; a
\* call reaches it only with maxRetries < 0, and then without a request made.
C30_ThrowOnlyBelowZero ==
    /\ fpc = "loop" /\ attempt > maxRetries => maxRetries < 0 /\ reqs = <<>>
    /\ ThrewAfterRetries => maxRetries < 0 /\ reqs = <<>> /\ statuses = <<>>

C30_Witness ==
    /\ ThrewAfterRetries
    /\ maxRetries = -1
    /\ reqs = <<>>
    /\ calls >= 1

\* ---------------------------------------------------------------------------
\* The spacing of calls (SpecFetch)
\* ---------------------------------------------------------------------------
\* C31: with calls made one after another, the first request of a call
\* starts at least 500 ms after the first request of the call before it;
\* lastRequestTime changes in rateLimit only, before the first attempt of the
\* call, and no retry attempt changes it.
C31_State ==
    /\ Len(firstSent) = 2 => firstSent[2] - firstSent[1] >= 500
    /\ reqs # <<>> => lastRequestTime = firstSent[Len(firstSent)]

C31_Step ==
    lastRequestTime' # lastRequestTime =>
        /\ fpc = "stamp" /\ fpc' = "loop"
        /\ reqs = <<>> /\ attempt = 0
        /\ lastRequestTime' = now

C31_CallSpacing == []C31_State /\ [][C31_Step]_vars

C31_Witness ==
    /\ Len(firstSent) = 2
    /\ firstSent[2] - firstSent[1] = 500
    /\ Len(reqs) = 2
    /\ lastRequestTime = firstSent[2]

\* ---------------------------------------------------------------------------
\* The counts of fetchAndParseActs (Spec)
\* ---------------------------------------------------------------------------
\* inside the loop the acts before the current one are the processed ones,
\* and the skipped and failed ones are among them
C32_State ==
    /\ InActLoop =>
          /\ toProcess = Truncate(acts, limit)
          /\ processed = actIdx - 1
          /\ processed <= Len(toProcess)
    /\ skipped + failed <= processed
    /\ lastWrite.kind = "report" => lastWrite.skipped + lastWrite.failed
                                       <= lastWrite.processed

\* an act adds one to processed and at most one to skipped and failed
\* together; the report gives processed as the length of the truncated index
C32_Step ==
    /\ (InActLoop /\ pc' # "idle") =>
          /\ processed' - processed \in {0, 1}
          /\ skipped' - skipped \in {0, 1}
          /\ failed' - failed \in {0, 1}
          /\ (skipped' - skipped) + (failed' - failed) <= processed' - processed
    /\ (pc = "acts" /\ lastWrite'.kind = "report") =>
          /\ lastWrite'.processed = Len(Truncate(acts, limit))
          /\ lastWrite'.skipped = skipped
          /\ lastWrite'.failed = failed

\* C32: at the end of fetchAndParseActs the processed count that is reported
\* is the number of acts of the truncated index; an act adds to at most one
\* of skipped and failed; skipped + failed <= processed after every act.
C32_Counts == []C32_State /\ [][C32_Step]_vars

C32_Witness ==
    /\ lastWrite.kind = "report"
    /\ lastWrite.processed = 2
    /\ lastWrite.skipped = 1
    /\ lastWrite.failed = 1

\* ---------------------------------------------------------------------------
\* Seed or failure for every act (Spec)
\* ---------------------------------------------------------------------------
OnDisk(files, f) == files[f].state # "absent"

\* the acts among the first n of the truncated index without a seed file
WithoutSeed(files, list, n) ==
    {k \in 1..n : ~OnDisk(files, SeedFile(list[k]))}

C33_State ==
    InActLoop => Cardinality(WithoutSeed(seedFiles, toProcess, actIdx - 1)) <= failed

C33_Step ==
    /\ (InActLoop /\ pc' # "idle" /\ actIdx' = actIdx + 1) =>
          \/ OnDisk(seedFiles', SeedFile(toProcess[actIdx]))
          \/ failed' = failed + 1
    /\ InActLoop => \A f \in SeedNames : OnDisk(seedFiles, f) => OnDisk(seedFiles', f)
    /\ (pc = "acts" /\ lastWrite'.kind = "report") =>
          /\ actIdx = Len(toProcess) + 1
          /\ Cardinality(WithoutSeed(seedFiles', toProcess, Len(toProcess)))
                <= lastWrite'.failed

\* C33: after a run that came to its end, every act of the truncated index
\* has a seed file on disk or was counted in failed in that run.
C33_SeedOrFailed == []C33_State /\ [][C33_Step]_vars

C33_Witness ==
    /\ lastWrite.kind = "report"
    /\ lastWrite.processed = 2
    /\ lastWrite.failed = 1
    /\ ~OnDisk(seedFiles, "1_2000.json")
    /\ seedFiles["1_2001.json"].state = "ok"

\* ---------------------------------------------------------------------------
\* An act whose processing raises (Spec)
\* ---------------------------------------------------------------------------
\* the step is the request of an act page that throws
ActFetchThrows ==
    pc = "acts" /\ lastReq'.kind = "act" /\ lastReq'.status = Thrown.status

C34_Step ==
    ActFetchThrows =>
        /\ lastReq'.key = SeedFile(toProcess[actIdx])
        /\ seedFiles' = seedFiles
        /\ lastWrite' = NoWrite
        /\ failed' = failed + 1
        /\ processed' = processed + 1
        /\ skipped' = skipped
        /\ actIdx' = actIdx + 1
        /\ pc' = "acts"

\* C34: when the processing of an act raises before its seed is written, as
\* when the request of the act page throws, the seed file of the act is left
\* as it was, failed grows by one and processed grows by one.
C34_RaiseBeforeWrite == [][C34_Step]_vars

C34_Witness ==
    /\ pc = "acts"
    /\ lastReq.kind = "act" /\ lastReq.status = Thrown.status
    /\ lastReq.was = "ok"
    /\ seedFiles[lastReq.key].state = "ok"
    /\ seedFiles[lastReq.key].record.provisions = <<>>
    /\ failed = 1 /\ processed = 2 /\ skipped = 1

\* ---------------------------------------------------------------------------
\* The index that discoverActs leaves (Spec)
\* ---------------------------------------------------------------------------
\* the entries of list from position k on that no earlier entry shares its
\* key with
RECURSIVE FirstOfEachKey(_, _)
FirstOfEachKey(list, k) ==
    IF k > Len(list) THEN <<>>
    ELSE (IF \A m \in 1..(k - 1) : EntryKey(list[m]) # EntryKey(list[k])
          THEN <<list[k]>> ELSE <<>>)
         \o FirstOfEachKey(list, k + 1)

\* the number of entries on the pages of the crawl answered with 200
RECURSIVE EntriesOf200(_)
EntriesOf200(pages) ==
    IF pages = <<>> THEN 0
    ELSE (IF Head(pages).status = 200 THEN Head(pages).entries ELSE 0)
         + EntriesOf200(Tail(pages))

\* a listing page adds its entries when its status is 200 and nothing else
C35_PageStep ==
    (pc = "discover" /\ pc' \in {"discover", "dedup"}) =>
        /\ Len(crawl') = Len(crawl) + 1
        /\ Len(allEntries') = EntriesOf200(crawl')
        /\ SubSeq(allEntries', 1, Len(allEntries)) = allEntries
        /\ crawl'[Len(crawl')].status # 200 => (allEntries' = allEntries /\ pc' = "dedup")
        /\ indexFile' = indexFile

\* discoverActs returns: the index file holds the entries found, each key
\* once, and they are the acts of the run
C35_SaveStep ==
    (pc = "dedup" /\ pc' = "phase2") =>
        /\ indexFile' = [exists |-> TRUE, valid |-> TRUE,
                         entries |-> FirstOfEachKey(allEntries, 1)]
        /\ acts' = indexFile'.entries
        /\ lastWrite'.kind = "index" /\ lastWrite'.crawled = allEntries
        /\ lastWrite'.stopped = crawl[Len(crawl)].status
        /\ Len(allEntries) = EntriesOf200(crawl)
        /\ (crawl[1].status # 200) =>
              (Len(crawl) = 1 /\ indexFile'.entries = <<>> /\ acts' = <<>>)

\* a run over an empty index requests no act and reports none
C35_EmptyRun ==
    /\ (pc \in {"phase2", "acts"} /\ acts = <<>>) =>
          /\ pc = "acts" => (toProcess = <<>> /\ processed = 0)
          /\ lastReq.kind \notin {"act", "section"}
    /\ pc \in {"sections", "write"} => acts # <<>>

\* C35: when discoverActs returns it has written the index file with the
\* deduplicated entries of the listing pages that were answered with 200
\* before it stopped; when the first listing response is not 200 an index
\* file that exists is overwritten with an empty list and the run processes
\* no act.
C35_IndexWritten ==
    /\ [][C35_PageStep]_vars
    /\ [][C35_SaveStep]_vars
    /\ []C35_EmptyRun

C35_Witness ==
    /\ pc = "phase2"
    /\ lastWrite.kind = "index"
    /\ lastWrite.stopped # 200 /\ lastWrite.crawled = <<>>
    /\ acts = <<>>
    /\ indexFile = [exists |-> TRUE, valid |-> TRUE, entries |-> <<>>]
    /\ \E f \in SeedNames : SeedComplete(seedFiles[f])

\* ---------------------------------------------------------------------------
\* The selectors of parseActHtml (SpecParse)
\* ---------------------------------------------------------------------------
C36_Call == pure.fn = "parseActHtml"

\* the elements among els that give a provision: a section number with a
\* digit in it and at least 10 characters of content
Yielding(els) ==
    {k \in 1..Len(els) :
        /\ els[k] \in {ElNumbered, ElBracketed}}

\* the selectors that yield at least one provision on the page
YieldingSelectors(matches) ==
    {k \in 1..Len(sectionSelectors) : Yielding(matches[sectionSelectors[k]]) # {}}

\* C36: parseActHtml tries its section selectors in their fixed order and
\* returns the provisions of the first selector that yields at least one;
\* the provisions of two selectors are never in one result.
C36_FirstSelectorWins ==
    C36_Call =>
        LET matches == pure.arg.matches
            yielding == YieldingSelectors(matches)
            provisions_ == pure.ret.provisions
        IN  IF yielding = {}
            THEN provisions_ = <<>>
            ELSE LET first == CHOOSE k \in yielding : \A m \in yielding : k <= m
                     els == matches[sectionSelectors[first]]
                 IN  /\ Len(provisions_) = Cardinality(Yielding(els))
                     /\ \A n \in 1..Len(provisions_) :
                           \E k \in Yielding(els) :
                               /\ Cardinality({m \in Yielding(els) : m <= k}) = n
                               /\ provisions_[n].title = cleanText(els[k].heading)
                               /\ provisions_[n].provision_ref
                                     = (IF els[k] = ElNumbered THEN "s4" ELSE "s43A")

C36_Witness ==
    /\ C36_Call
    /\ pure.arg.matches[sectionSelectors[1]] = <<ElHeading>>
    /\ pure.arg.matches[sectionSelectors[3]] = <<ElBracketed>>
    /\ pure.arg.matches[sectionSelectors[5]] = <<ElNumbered>>
    /\ Len(pure.ret.provisions) = 1
    /\ pure.ret.provisions[1].section = "43A"
    /\ pure.ret.provisions[1].content = "[43A] Compensation for failure"
    /\ pure.ret.short_name = "IT 2000"

\* ---------------------------------------------------------------------------
\* The act id and the references of extractSectionRefs (SpecParse)
\* ---------------------------------------------------------------------------
C37_Call == pure.fn = "extractSectionRefs"

\* the part of id before its first '#', the whole of it when it has none
BeforeHash(id) ==
    CHOOSE p \in {SubSeq(id, 1, n) : n \in 0..Len(id)} :
        /\ \A k \in 1..Len(p) : CharAt(p, k) # "#"
        /\ Len(p) = Len(id) \/ CharAt(id, Len(p) + 1) = "#"

\* the id attribute of the k-th section link of the call
C37_LinkId(k) ==
    IF pure.arg.links[k].hasId THEN pure.arg.links[k].id ELSE ""

\* the refs come from links f[1] < f[2] < ..., each with the act id of its
\* own id or, when that is empty, the act id of the page
C37_FromLinks(f) ==
    /\ \A n \in DOMAIN f : \A m \in DOMAIN f : n < m => f[n] < f[m]
    /\ \A n \in DOMAIN f :
          LET id == C37_LinkId(f[n])
              ref == pure.ret.sections[n]
          IN  /\ Len(id) > Len(BeforeHash(id))
              /\ ref.sectionId
                    = BeforeHash(SubSeq(id, Len(BeforeHash(id)) + 2, Len(id)))
              /\ ref.actId = (IF BeforeHash(id) # "" THEN BeforeHash(id)
                              ELSE pure.ret.actId)

\* C37: extractSectionRefs returns as actId the id of the preamble anchor
\* when that is present and not empty, and otherwise the part before the
\* first '#' of the id of the first section link; every SectionRef it returns
\* has a sectionId and a sectionNo that are not empty, and as actId the first
\* part of its own id, or the actId of the page when that part is empty.
C37_ActIdAndRefs ==
    C37_Call =>
        LET html == pure.arg
            fromPreamble ==
                html.preamble # <<>> /\ html.preamble[1].hasId
                    /\ html.preamble[1].id # ""
        IN  /\ fromPreamble => pure.ret.actId = html.preamble[1].id
            /\ ~fromPreamble =>
                   pure.ret.actId = (IF html.links = <<>> THEN ""
                                     ELSE BeforeHash(C37_LinkId(1)))
            /\ \A n \in 1..Len(pure.ret.sections) :
                  /\ pure.ret.sections[n].sectionId # ""
                  /\ pure.ret.sections[n].sectionNo # ""
            /\ \E f \in [1..Len(pure.ret.sections) -> 1..Len(html.links)] :
                  C37_FromLinks(f)

C37_Witness ==
    /\ C37_Call
    /\ pure.arg.preamble = <<[hasId |-> TRUE, id |-> "P9"]>>
    /\ Len(pure.arg.links) = 2
    /\ pure.arg.links[1].id = "#S4#O3" /\ pure.arg.links[1].hasId
    /\ pure.arg.links[2].id = "A1#S2#O3" /\ pure.arg.links[2].hasId
    /\ pure.ret.actId = "P9"
    /\ pure.ret.sections =
          <<[actId |-> "P9", sectionId |-> "S4", sectionNo |-> "4",
             title |-> "Definitions"],
            [actId |-> "A1", sectionId |-> "S2", sectionNo |-> "43A",
             title |-> "Compensation"]>>

\* the act id recovered from the first section link
C37_WitnessFirstLink ==
    /\ C37_Call
    /\ pure.arg.preamble = <<[hasId |-> TRUE, id |-> ""]>>
    /\ pure.ret.actId = "A1"
    /\ Len(pure.ret.sections) = 1
    /\ Len(pure.arg.links) = 2

====
